---- MODULE Spec2Model ----
(***************************************************************************)
(* Core runtime of the kernel: the physical frame allocator                *)
(* (kernel/memory/pmm.c), the virtual memory manager (kernel/memory/vmm.c) *)
(* and the kernel heap (kernel/memory/kheap.c).                            *)
(*                                                                         *)
(* Scale.  Addresses are counted in units of half a page, so PAGE_SIZE is  *)
(* 2 units (4096 bytes in the source) and an address can be unaligned.     *)
(* Thresholds that the source states in frames are scaled with the size of *)
(* the modelled memory; each scaled constant says so where it is defined.  *)
(***************************************************************************)
EXTENDS Integers, Sequences, FiniteSets, Bags, TLC

\* ------------------------------------------------------------------ bounds

\* Frames of physical memory covered by the bitmap (total_memory_pages).
TotalFrames == 9
\* Largest request the environment passes to pmm_alloc_pages.
MaxAllocPages == 3
\* Cap of the used_memory_pages counter, which the hot cache lets grow without
\* limit once it has passed total_memory_pages.
MaxUsedPages == 12
\* Most ranges callers of the allocator hold at a time.
MaxLive == 3

\* End of the modelled virtual address range, in address units.
MaxVaddr == 10
\* Longest mapping requested, in address units.
MaxMapLen == 3
\* Highest program break requested.
MaxBrk == 5
\* Most VMAs of the context.
MaxVmas == 2
\* Largest used-page count the virtual-memory model follows.
MaxVmUsedPages == 11

\* Largest size passed to kmalloc, in address units.
MaxKmallocSize == 4
\* Most calls of kmalloc in a run (allocation_count only grows).
MaxKmallocs == 5
\* Most pointers callers of the heap hold at a time.
MaxHeapLive == 3
\* Most calls of kfree in a run (free_count only grows).
MaxKfrees == 5

\* Most tasks scheduler_create_task creates in a run.
MaxTasks == 2
\* Most heap allocations before the last scheduler_create_task of a run.
MaxSchedAllocs == 16
\* Most timer ticks of a run with arbitrary callers.
MaxTicks == 6
\* Most timer ticks of a run in which the timer interrupts scheduler calls.
MaxIrqTicks == 2
\* Most context switches before the last interruptible scheduler call.
MaxSwitches == 3
\* Most yield_now calls of one task in the run of yields.
MaxYieldRun == 12
\* Most timer ticks among the run of yields.
MaxYieldTicks == 2
\* Most yield_now calls of a run (voluntary_yields only grows).
MaxYields == 2
\* Most kmalloc calls of the callers of krealloc, those krealloc makes
\* included.
MaxReallocAllocs == 5

\* Most tasks given to the second CPU in a run (total_tasks only grows).
MaxPlaced == 3
\* Most tasks created in a run in which tasks move between the CPUs.
MaxResidents == 3
\* Timer ticks of a run in which the ticks keep arriving.
MaxFairTicks == 6
\* Most yield_now calls of such a run.
MaxFairYields == 1
\* Most kmalloc calls of a run on the machine of WideFrames frames: the calls
\* that use up the frames below the heap, and one more.
MaxOwnerKmallocs == 6
\* Most kmalloc calls on the heap nobody frees to: one more than the heap
\* region can serve from the 32-byte class.
MaxFreshKmallocs == 18

\* ------------------------------------------------------- program constants

\* kernel.h:60  (4096 bytes; here 2 half-page units)
PAGE_SIZE == 2
\* pmm.c:58  (128 MiB of frames, 1/32 of the 4 GiB bitmap; scaled to the model)
LOW_MEMORY_THRESHOLD == 1
\* pmm.c:59  (8 entries for a million frames; scaled to the model)
PAGE_CACHE_SIZE == 2
\* pmm.c:203  upper limit of one request
MAX_REQUEST_PAGES == 1024
\* pmm.c:53  KERNEL_START_ADDR / PAGE_SIZE (0x100 in the source; scaled)
KERNEL_START_PAGE == 1
\* pmm.c:150  ALIGN_UP(&_kernel_end, PAGE_SIZE) / PAGE_SIZE, set by the linker
KERNEL_END_PAGE == 2
\* pmm.c:147  memory_bitmap_size / PAGE_SIZE
BITMAP_PAGES == 1
\* pmm.c:106  address of the multiboot information block
MB_INFO_ADDR == 1
\* pmm.c:169  bytes of multiboot information kept (1024; under one unit)
MB_INFO_SPAN == 1
\* vmm.c:30-33
PROT_NONE == 0
PROT_READ == 1
PROT_WRITE == 2
PROT_EXEC == 4
\* vmm.c:36-39
MAP_SHARED == 1
MAP_PRIVATE == 2
MAP_ANONYMOUS == 32
MAP_FIXED == 16
\* vmm.c:23-27
PF_PRESENT == 1
PF_WRITE == 2
PF_USER == 4
PF_INSTR == 16
\* vmm.c:111-114  entries of one page table (512; scaled)
TABLE_ENTRIES == 2
\* vmm.c:439  initial program break (0x40000000; scaled: page 1)
BRK_BASE == 2
\* vmm.c:440  base of the mmap search (0x60000000; scaled: page 3)
MMAP_BASE == 6
\* types.h:16  size_t arithmetic is modular; 2^30 stands for 2^64 because the
\* model checker's integers are 32 bits wide.  Only comparisons of a wrapped
\* value against the thresholds above depend on it.
SIZE_MOD == 1073741824
\* kheap.c:19  start of the heap (0x300000).  The bitmap of TotalFrames frames
\* ends below it; the bitmap of the source (4 GiB, kernel.h:61) reaches past
\* the end of the heap, as the bitmap of WideFrames frames does.
HEAP_START == 24
\* kheap.c:20  (4 MiB; scaled to hold the initial slabs, the task structures
\* and the stacks of the modelled runs)
HEAP_SIZE == 48
\* kheap.c:24  (9 classes, 16 bytes to one page; here one unit to one page)
NUM_SIZE_CLASSES == 2
\* kheap.c:265-266  allocation granule (16 bytes; here one unit)
HEAP_ALIGN == 1
\* kheap.c:33  (4096 bytes, one page)
LARGE_ALLOC_THRESHOLD == 2
\* kheap.c:123  objects of the first slab of a class (32; scaled)
INITIAL_OBJECTS == 2
\* kheap.c:158  least number of objects of an expansion (16; scaled, half of
\* the initial slab as in the source)
EXPAND_MIN_OBJECTS == 1
\* kheap.c:190-194  ALIGN_UP(sizeof(alloc_record_t), 16) (48 bytes; scaled to
\* one unit)
ALLOC_RECORD_SIZE == 1
\* scheduler.c:19  (16 run queues; scaled)
MAX_CPUS == 2
\* scheduler.c:23-26
QUANTUM_INTERACTIVE == 5
QUANTUM_COMPUTE == 20
QUANTUM_IO == 10
QUANTUM_REALTIME == 2
\* scheduler.c:29-30
IO_WAIT_THRESHOLD == 50
CPU_INTENSIVE_MIN == 80
\* scheduler.c:34-36
PRIORITY_RT_MAX == 99
PRIORITY_NORMAL == 100
PRIORITY_BATCH == 120
\* scheduler.c:44-47
WORKLOAD_INTERACTIVE == 0
WORKLOAD_COMPUTE == 1
WORKLOAD_IO == 2
WORKLOAD_REALTIME == 3
\* kernel.h:71-74
TASK_RUNNING == 0
TASK_READY == 1
TASK_BLOCKED == 2
TASK_TERMINATED == 3
\* scheduler.c:128  yields above which a task counts as interactive
YIELDS_INTERACTIVE == 10
\* scheduler.c:378  ticks between two calls of balance_load
BALANCE_PERIOD == 100
\* scheduler.c:205, 212  thresholds of balance_load
STEAL_MARGIN == 1
STEAL_MIN_LOAD == 2
\* scheduler.c:261  affinity of the idle task: CPU 0 only
AFFINITY_CPU0 == 1
\* scheduler.c:314  affinity of a created task (0xFFFFFFFF: every CPU; here
\* one bit for each of the MAX_CPUS run queues)
AFFINITY_ANY == 3
\* scheduler.c:51-78  sizeof(task_t): above the smallest size class (its
\* fields take more than 16 bytes), within the largest
TASK_T_SIZE == 2
\* The run of the work-stealing scenario: four tasks, 200 ticks.
COMPUTE_TASKS == 4
COMPUTE_TICKS == 200
\* scheduler.c:239-241  NULL in a task pointer (task ids start at 0)
NoTask == -1

ALIGN_UP(val, align) == ((val + align - 1) \div align) * align

Frames == 0 .. (TotalFrames - 1)

total_memory_pages == TotalFrames

pf_cache_cold_count == 0

\* ---------------------------------------------------------------- state

VARIABLES
    pmm,        \* [memory_bitmap, used_memory_pages, pf_cache_hot]
    live,       \* bag of <<addr, n>>: ranges returned by pmm_alloc_pages to a
                \* caller of the allocator and not yet freed by it
    last_freed, \* <<addr, n>> of the range a caller freed in the last call of
                \* the allocator, <<0, 0>> when the last call was no such free
    double_freed, \* TRUE once a caller has freed a range twice
    vm,         \* kernel_vm_context and its page tables: [vma_list, brk,
                \* page_dir, pml4, pdp, pd, pt]
    vm_held,    \* frames pmm_alloc_pages has returned to the VMM and the VMM
                \* has not passed to pmm_free_pages since
    heap,       \* the globals of kheap.c and the free-list links kept in the
                \* heap memory itself
    heap_live,  \* bag of pointers kmalloc has returned to a caller and the
                \* caller has not yet passed to kfree
    heap_freed, \* heap pointers a caller has passed to kfree and kmalloc has
                \* not returned since
    sched,      \* the globals of scheduler.c and the task structures: [tasks,
                \* cpu_runqueues, num_cpus, next_task_id, global_ticks,
                \* context_switches, load_balances, started]
    ctx,        \* the code that called into the scheduler with interrupts
                \* enabled: [pc, self, current, next], pc the statement it is
                \* about to execute and the others its local variables
    killed,     \* the task ids scheduler_kill_task has been called with
    fork_ret,   \* what sys_fork last returned to its caller (0: no call yet)
    mmap_ret,   \* what vmm_mmap returned to the caller that kept its result
                \* (-1: no such call yet)
    contents    \* the bytes callers of krealloc keep in their heap blocks:
                \* [bytes, owned, last], bytes the heap memory they wrote,
                \* owned the <<ptr, size>> of their blocks, last the
                \* <<old ptr, old size, new ptr, new size>> of the last realloc

pfaVars == <<pmm, live, last_freed, double_freed>>

vmVars == <<vm, vm_held, mmap_ret>>

heapVars == <<heap, heap_live, heap_freed, contents>>

schedVars == <<sched, ctx, killed, fork_ret>>

\* ------------------------------------------------------------ PFA: init

KernelPages == KERNEL_START_PAGE .. (KERNEL_END_PAGE - 1)

MbPages ==
    (MB_INFO_ADDR \div PAGE_SIZE) ..
        ((ALIGN_UP(MB_INFO_ADDR + MB_INFO_SPAN, PAGE_SIZE) \div PAGE_SIZE) - 1)

\* pmm_parse_memory_map: the bitmap is zeroed, the kernel image and the
\* multiboot block are marked; used_memory_pages starts at the number of
\* pages below the end of the bitmap and is incremented for every marked page.
\* The state after pmm_parse_memory_map on a machine whose bitmap covers the
\* frames 0 .. frames - 1.
ParsedMemoryMap(frames) ==
    [ memory_bitmap |->
          [i \in 0 .. (frames - 1) |-> (i \in KernelPages) \/ (i \in MbPages)],
      used_memory_pages |-> (KERNEL_END_PAGE + BITMAP_PAGES)
                              + Cardinality(KernelPages) + Cardinality(MbPages),
      pf_cache_hot |-> <<>> ]

pmm_parse_memory_map == ParsedMemoryMap(total_memory_pages)

\* -------------------------------------------------------- PFA: operations

\* The bitmap has one bit per frame 0 .. total_memory_pages - 1: the number of
\* frames the allocator state s covers.
FrameCount(s) == Cardinality(DOMAIN s.memory_bitmap)

pmm_get_free_pages(s) == (FrameCount(s) - s.used_memory_pages) % SIZE_MOD

SetBits(bm, from, n) ==
    [i \in DOMAIN bm |-> IF i >= from /\ i < from + n THEN TRUE ELSE bm[i]]

ClearBits(bm, from, n) ==
    [i \in DOMAIN bm |-> IF i >= from /\ i < from + n THEN FALSE ELSE bm[i]]

\* The scan of pmm_alloc_pages (lines 230-255): returns best_start.  The loop
\* ends at i = total_memory_pages, the first index without a bit.
RECURSIVE FindBlock(_, _, _, _, _, _, _)
FindBlock(bm, n, i, consecutive_free, start_page, best_start, best_size) ==
    IF i \notin DOMAIN bm THEN best_start
    ELSE IF ~bm[i]
         THEN LET cf == consecutive_free + 1
                  sp == IF cf = 1 THEN i ELSE start_page
              IN  IF cf = n
                  THEN IF best_size > cf \/ best_start = 0
                       THEN FindBlock(bm, n, i + 1, 0, sp, sp, cf)
                       ELSE FindBlock(bm, n, i + 1, 0, sp, best_start, best_size)
                  ELSE FindBlock(bm, n, i + 1, cf, sp, best_start, best_size)
         ELSE FindBlock(bm, n, i + 1, 0, start_page, best_start, best_size)

\* Lines 277-285: the highest free page above the block just allocated.
HighFree(bm, lo) == {i \in DOMAIN bm : i > lo /\ ~bm[i]}

Max(S) == CHOOSE x \in S : \A y \in S : y <= x

\* pmm_alloc_pages: the allocator state after the call and the address returned
\* (0 on failure).
pmm_alloc_pages(s, num_pages) ==
    IF num_pages = 0 \/ num_pages > MAX_REQUEST_PAGES
    THEN [s |-> s, ret |-> 0]
    ELSE
    LET low_memory == pmm_get_free_pages(s) < LOW_MEMORY_THRESHOLD
        hot == s.pf_cache_hot
    IN
    IF num_pages = 1 /\ ~low_memory /\ Len(hot) > 0
    THEN LET page_addr == hot[Len(hot)]
             page_idx == page_addr \div PAGE_SIZE
         IN  [s |-> [ memory_bitmap |-> SetBits(s.memory_bitmap, page_idx, 1),
                      used_memory_pages |-> s.used_memory_pages + 1,
                      pf_cache_hot |-> SubSeq(hot, 1, Len(hot) - 1) ],
              ret |-> page_addr]
    ELSE
    LET best_start == FindBlock(s.memory_bitmap, num_pages, 0, 0, 0, 0, SIZE_MOD - 1)
    IN
    IF best_start = 0
    THEN [s |-> s, ret |-> 0]
    ELSE
    LET bm == SetBits(s.memory_bitmap, best_start, num_pages)
        cand == HighFree(bm, best_start + num_pages)
        hot2 == IF ~low_memory /\ num_pages = 1 /\ cand # {}
                   /\ Len(hot) < PAGE_CACHE_SIZE
                THEN Append(hot, Max(cand) * PAGE_SIZE)
                ELSE hot
    IN  [s |-> [ memory_bitmap |-> bm,
                 used_memory_pages |-> s.used_memory_pages + num_pages,
                 pf_cache_hot |-> hot2 ],
         ret |-> best_start * PAGE_SIZE]

\* pmm_free_pages: the allocator state after the call.
pmm_free_pages(s, addr, num_pages) ==
    IF num_pages = 0 \/ addr = 0 THEN s
    ELSE
    LET start_page == addr \div PAGE_SIZE IN
    IF start_page \notin DOMAIN s.memory_bitmap THEN s
    ELSE
    LET all_allocated ==
            \A i \in 0 .. (num_pages - 1) :
                /\ (start_page + i) \in DOMAIN s.memory_bitmap
                /\ s.memory_bitmap[start_page + i]
    IN
    IF ~all_allocated THEN s
    ELSE
    IF num_pages = 1
       /\ pmm_get_free_pages(s) > LOW_MEMORY_THRESHOLD * 2
       /\ Len(s.pf_cache_hot) < PAGE_CACHE_SIZE
    THEN [s EXCEPT !.pf_cache_hot = Append(@, addr)]
    ELSE [s EXCEPT !.memory_bitmap = ClearBits(@, start_page, num_pages),
                   !.used_memory_pages = @ - num_pages]

\* --------------------------------------------------------- PFA: actions

RangeFrames(r) == (r[1] \div PAGE_SIZE) .. ((r[1] \div PAGE_SIZE) + r[2] - 1)

LiveRanges == BagToSet(live)

\* A caller asks for n frames.
PmmAlloc ==
    \E n \in 1 .. MaxAllocPages :
        LET r == pmm_alloc_pages(pmm, n) IN
        /\ r.s.used_memory_pages <= MaxUsedPages
        /\ BagCardinality(live) < MaxLive
        /\ pmm' = r.s
        /\ live' = IF r.ret = 0 THEN live
                   ELSE live (+) SetToBag({<<r.ret, n>>})
        /\ last_freed' = <<0, 0>>
        /\ UNCHANGED <<double_freed, vmVars, heapVars, schedVars>>

\* A caller frees a range it holds.
PmmFreeOwned ==
    \E r \in LiveRanges :
        /\ pmm' = pmm_free_pages(pmm, r[1], r[2])
        /\ live' = live (-) SetToBag({r})
        /\ last_freed' = r
        /\ UNCHANGED <<double_freed, vmVars, heapVars, schedVars>>

\* A caller frees again the range it has just freed (a double free).
PmmFreeAgain ==
    /\ last_freed # <<0, 0>>
    /\ pmm' = pmm_free_pages(pmm, last_freed[1], last_freed[2])
    /\ double_freed' = TRUE
    /\ UNCHANGED <<live, last_freed, vmVars, heapVars, schedVars>>


\* ------------------------------------------------------------ VMM: tables

HasBit(x, b) == (x \div b) % 2 = 1

VPages == 0 .. ((MaxVaddr \div PAGE_SIZE) - 1)

\* vmm_get_pte, lines 110-114: the entry a page selects at each level.  The
\* tables below the PML4 are named by the path of indices that leads to them.
Pml4Key(vp) == vp \div (TABLE_ENTRIES * TABLE_ENTRIES * TABLE_ENTRIES)
PdpKey(vp) == vp \div (TABLE_ENTRIES * TABLE_ENTRIES)
PdKey(vp) == vp \div TABLE_ENTRIES

NoPte == [present |-> FALSE, writable |-> FALSE, user |-> FALSE,
          no_execute |-> FALSE, address |-> 0]

\* The kernel context before vmm_init.
EmptyContext ==
    [ vma_list |-> <<>>, brk |-> 0, mmap_base |-> 0, page_dir |-> 0,
      pml4 |-> [k \in {Pml4Key(vp) : vp \in VPages} |-> 0],
      pdp |-> [k \in {PdpKey(vp) : vp \in VPages} |-> 0],
      pd |-> [k \in {PdKey(vp) : vp \in VPages} |-> 0],
      pt |-> [vp \in VPages |-> NoPte] ]

\* One pmm_alloc_pages(1) of the VMM: st is [pmm, vm, held]; the frame is held.
Held(st, a) ==
    [ st |-> [st EXCEPT !.pmm = a.s,
                        !.held = IF a.ret = 0 THEN @
                                 ELSE @ \cup {a.ret \div PAGE_SIZE}],
      ret |-> a.ret ]

VmAllocFrame(st) == Held(st, pmm_alloc_pages(st.pmm, 1))

\* vmm_get_pte, lines 117-125: the PML4 entry of the page, a holding the
\* result of the allocation of a missing table.
Pml4Install(a, vp) ==
    IF a.ret = 0 THEN [st |-> a.st, ok |-> FALSE]
    ELSE [st |-> [a.st EXCEPT !.vm.pml4[Pml4Key(vp)] = a.ret], ok |-> TRUE]

Pml4Level(st, vp) ==
    IF st.vm.pml4[Pml4Key(vp)] # 0 THEN [st |-> st, ok |-> TRUE]
    ELSE Pml4Install(VmAllocFrame(st), vp)

\* Lines 128-136: the PDP entry.
PdpInstall(a, vp) ==
    IF a.ret = 0 THEN [st |-> a.st, ok |-> FALSE]
    ELSE [st |-> [a.st EXCEPT !.vm.pdp[PdpKey(vp)] = a.ret], ok |-> TRUE]

PdpLevel(l1, vp) ==
    IF ~l1.ok \/ l1.st.vm.pdp[PdpKey(vp)] # 0 THEN l1
    ELSE PdpInstall(VmAllocFrame(l1.st), vp)

\* Lines 139-147: the PD entry.
PdInstall(a, vp) ==
    IF a.ret = 0 THEN [st |-> a.st, ok |-> FALSE]
    ELSE [st |-> [a.st EXCEPT !.vm.pd[PdKey(vp)] = a.ret], ok |-> TRUE]

PdLevel(l2, vp) ==
    IF ~l2.ok \/ l2.st.vm.pd[PdKey(vp)] # 0 THEN l2
    ELSE PdInstall(VmAllocFrame(l2.st), vp)

\* vmm_get_pte with create: installs the missing tables of the page's path, one
\* frame each; a failed allocation leaves the tables installed so far.
vmm_get_pte_create(st, vp) == PdLevel(PdpLevel(Pml4Level(st, vp), vp), vp)

\* vmm_get_pte without create: TRUE when the walk reaches the page's PTE.
vmm_get_pte(v, vp) ==
    /\ v.pml4[Pml4Key(vp)] # 0
    /\ v.pdp[PdpKey(vp)] # 0
    /\ v.pd[PdKey(vp)] # 0

\* vmm_map_page, lines 158-170: w is the result of the walk.
SetPte(w, vp, paddr, prot) ==
    IF ~w.ok THEN w.st
    ELSE [w.st EXCEPT !.vm.pt[vp] =
             [ present |-> TRUE,
               writable |-> HasBit(prot, PROT_WRITE),
               user |-> TRUE,
               no_execute |-> ~HasBit(prot, PROT_EXEC),
               address |-> paddr \div PAGE_SIZE ]]

vmm_map_page(st, vaddr, paddr, prot) ==
    SetPte(vmm_get_pte_create(st, vaddr \div PAGE_SIZE), vaddr \div PAGE_SIZE,
           paddr, prot)

vmm_unmap_page(st, vaddr) ==
    LET vp == vaddr \div PAGE_SIZE IN
    IF vp \in VPages /\ vmm_get_pte(st.vm, vp) /\ st.vm.pt[vp].present
    THEN LET paddr == st.vm.pt[vp].address * PAGE_SIZE IN
         [ pmm |-> pmm_free_pages(st.pmm, paddr, 1),
           vm |-> [st.vm EXCEPT !.pt[vp] = NoPte],
           held |-> st.held \ {st.vm.pt[vp].address} ]
    ELSE st

\* for (page = from; page < to; page += PAGE_SIZE) vmm_unmap_page(page)
RECURSIVE UnmapLoop(_, _, _)
UnmapLoop(st, page, to) ==
    IF page >= to THEN st
    ELSE UnmapLoop(vmm_unmap_page(st, page), page + PAGE_SIZE, to)

\* -------------------------------------------------------------- VMM: VMAs

vmm_create_vma(start, end, prot, flags) ==
    [start |-> start, end |-> end, prot |-> prot, flags |-> flags]

RECURSIVE vmm_find_vma(_, _)
vmm_find_vma(list, addr) ==
    IF list = <<>> THEN <<>>
    ELSE IF addr >= Head(list).start /\ addr < Head(list).end
         THEN <<Head(list)>>
         ELSE vmm_find_vma(Tail(list), addr)

\* vmm_insert_vma, lines 230-236: the position after which the walk stops.
RECURSIVE InsertAfter(_, _, _)
InsertAfter(list, new_vma, current) ==
    IF current < Len(list) /\ list[current + 1].start < new_vma.start
    THEN InsertAfter(list, new_vma, current + 1)
    ELSE current

vmm_insert_vma(list, new_vma) ==
    IF list = <<>> \/ new_vma.start < list[1].start
    THEN <<new_vma>> \o list
    ELSE LET c == InsertAfter(list, new_vma, 1) IN
         SubSeq(list, 1, c) \o <<new_vma>> \o SubSeq(list, c + 1, Len(list))

\* vmm_mmap, lines 256-267: the address chosen without MAP_FIXED.
RECURSIVE MmapSearch(_, _, _)
MmapSearch(list, vaddr, length) ==
    IF list = <<>> THEN vaddr
    ELSE IF vaddr + length <= Head(list).start THEN vaddr
         ELSE MmapSearch(Tail(list), ALIGN_UP(Head(list).end, PAGE_SIZE), length)

\* vmm_mmap: the context after the call and the address returned (0 for NULL).
\* vmm_mmap without its check of the length.
vmm_mmap_unchecked(v, addr, len, prot, flags) ==
    LET length == ALIGN_UP(len, PAGE_SIZE)
        vaddr == IF HasBit(flags, MAP_FIXED) THEN addr
                 ELSE MmapSearch(v.vma_list, v.mmap_base, length)
        new_vma == vmm_create_vma(vaddr, vaddr + length, prot, flags)
    IN  [vm |-> [v EXCEPT !.vma_list = vmm_insert_vma(@, new_vma)],
         ret |-> vaddr]

vmm_mmap(v, addr, len, prot, flags) ==
    IF len = 0 THEN [vm |-> v, ret |-> 0]
    ELSE
    LET length == ALIGN_UP(len, PAGE_SIZE)
        vaddr == IF HasBit(flags, MAP_FIXED) THEN addr
                 ELSE MmapSearch(v.vma_list, v.mmap_base, length)
        new_vma == vmm_create_vma(vaddr, vaddr + length, prot, flags)
    IN  [vm |-> [v EXCEPT !.vma_list = vmm_insert_vma(@, new_vma)],
         ret |-> vaddr]

\* vmm_munmap, lines 298-316: walks the list from its head.
RECURSIVE MunmapWalk(_, _, _, _, _)
MunmapWalk(st, rest, kept, start, end) ==
    IF rest = <<>> THEN [st EXCEPT !.vm.vma_list = kept]
    ELSE LET vma == Head(rest) IN
         IF vma.start >= end THEN [st EXCEPT !.vm.vma_list = kept \o rest]
         ELSE IF vma.end > start /\ vma.start < end
              THEN MunmapWalk(UnmapLoop(st, vma.start, vma.end), Tail(rest),
                              kept, start, end)
              ELSE MunmapWalk(st, Tail(rest), Append(kept, vma), start, end)

vmm_munmap(st, addr, length) ==
    MunmapWalk(st, st.vm.vma_list, <<>>, addr,
               addr + ALIGN_UP(length, PAGE_SIZE))

\* vmm_brk with a non-null addr.
vmm_brk(st, addr) ==
    LET old_brk == st.vm.brk IN
    IF addr < old_brk
    THEN [UnmapLoop(st, addr, old_brk) EXCEPT !.vm.brk = addr]
    ELSE [st EXCEPT
            !.vm.vma_list =
                vmm_insert_vma(@, vmm_create_vma(old_brk, addr,
                                                 PROT_READ + PROT_WRITE,
                                                 MAP_PRIVATE + MAP_ANONYMOUS)),
            !.vm.brk = addr]

\* ------------------------------------------------------- VMM: page fault

\* Line 349: the fault is handled as copy-on-write.
IsCowFault(v, vma, fault_addr, error_code) ==
    LET vp == fault_addr \div PAGE_SIZE IN
    /\ vmm_get_pte(v, vp)
    /\ v.pt[vp].present
    /\ HasBit(error_code, PF_WRITE)
    /\ HasBit(vma.flags, MAP_PRIVATE)

\* Lines 355-372: the copy-on-write path, a holding the result of its
\* allocation.
CowResolve(a, vp) ==
    IF a.ret = 0 THEN a.st
    ELSE [a.st EXCEPT !.vm.pt[vp].address = a.ret \div PAGE_SIZE,
                      !.vm.pt[vp].writable = TRUE]

\* Lines 378-389: the regular path.
DemandResolve(a, page_addr, prot) ==
    IF a.ret = 0 THEN a.st
    ELSE vmm_map_page(a.st, page_addr, a.ret, prot)

\* Lines 342-389: the handler once the VMA of the address is found.
FaultInVma(st, vma, fault_addr, error_code) ==
    IF HasBit(error_code, PF_WRITE) /\ ~HasBit(vma.prot, PROT_WRITE) THEN st
    ELSE IF IsCowFault(st.vm, vma, fault_addr, error_code)
         THEN CowResolve(VmAllocFrame(st), fault_addr \div PAGE_SIZE)
         ELSE DemandResolve(VmAllocFrame(st),
                            (fault_addr \div PAGE_SIZE) * PAGE_SIZE, vma.prot)

FaultLookup(st, found, fault_addr, error_code) ==
    IF found = <<>> THEN st
    ELSE FaultInVma(st, found[1], fault_addr, error_code)

vmm_page_fault_handler(st, fault_addr, error_code) ==
    FaultLookup(st, vmm_find_vma(st.vm.vma_list, fault_addr), fault_addr,
                error_code)

\* vmm_init: the context after the call (the page directory is one frame).
InitContext(a) ==
    [a.st EXCEPT !.vm.vma_list = <<>>,
                 !.vm.brk = BRK_BASE,
                 !.vm.mmap_base = MMAP_BASE,
                 !.vm.page_dir = a.ret]

vmm_init(st) == InitContext(VmAllocFrame(st))

\* ---------------------------------------------------------- VMM: actions

VmState == [pmm |-> pmm, vm |-> vm, held |-> vm_held]

\* The model follows a call when its result stays inside the modelled memory;
\* ret is the result the caller is left with.
VmStepRet(st, ret) ==
    /\ st.pmm.used_memory_pages <= MaxVmUsedPages
    /\ Len(st.vm.vma_list) <= MaxVmas
    /\ \A i \in 1 .. Len(st.vm.vma_list) : st.vm.vma_list[i].end <= MaxVaddr
    /\ pmm' = st.pmm
    /\ vm' = st.vm
    /\ vm_held' = st.held
    /\ mmap_ret' = ret
    /\ UNCHANGED <<live, last_freed, double_freed, heapVars, schedVars>>

VmStep(st) == VmStepRet(st, mmap_ret)

VmmInit ==
    /\ vm.page_dir = 0
    /\ VmStep(vmm_init(VmState))

\* The lengths requested: one page, and a length that is rounded up to two.
MapLens == {PAGE_SIZE, MaxMapLen}

\* The <<prot, flags>> of the mappings requested.
MmapKinds ==
    { <<PROT_NONE, MAP_PRIVATE + MAP_ANONYMOUS>>,
      <<PROT_READ, MAP_SHARED + MAP_ANONYMOUS>>,
      <<PROT_READ + PROT_WRITE, MAP_PRIVATE + MAP_ANONYMOUS>> }

VmmMmap ==
    /\ vm.page_dir # 0
    /\ \E len \in MapLens, k \in MmapKinds :
          VmStep([VmState EXCEPT !.vm = vmm_mmap(vm, 0, len, k[1], k[2]).vm])

\* The addresses the calls and faults are issued at: no VMA starts below the
\* initial program break.
FaultAddrs == BRK_BASE .. (MaxVaddr - 1)

Munmap(addr, len) ==
    /\ vm.page_dir # 0
    /\ VmStep(vmm_munmap(VmState, addr, len))

VmmMunmap ==
    \E addr \in FaultAddrs, len \in MapLens : Munmap(addr, len)

\* The program break is requested at or above its initial value.
VmmBrk ==
    /\ vm.page_dir # 0
    /\ \E addr \in BRK_BASE .. MaxBrk : VmStep(vmm_brk(VmState, addr))

FaultCodes == {0, PF_WRITE, PF_INSTR}

PageFault(fault_addr, error_code) ==
    /\ vm.page_dir # 0
    /\ VmStep(vmm_page_fault_handler(VmState, fault_addr, error_code))

VmmPageFault ==
    \E fault_addr \in FaultAddrs, error_code \in FaultCodes :
        PageFault(fault_addr, error_code)

\* ------------------------------------------------------------ heap: slabs

HEAP_END == HEAP_START + HEAP_SIZE

HeapAddrs == HEAP_START .. (HEAP_END - 1)

Classes == 0 .. (NUM_SIZE_CLASSES - 1)

\* kheap.c:25-27: powers of two from the granule to one page.
size_classes == [i \in Classes |-> HEAP_ALIGN * (2 ^ i)]

\* The globals of kheap.c before kheap_init; next[a] is the next field of the
\* free_node_t stored at heap address a (0 is NULL).
HeapZero ==
    [ size_class_allocators |->
          [i \in Classes |-> [ free_list |-> 0, total_objects |-> 0,
                               free_objects |-> 0, alloc_count |-> 0,
                               free_count |-> 0 ]],
      heap_next_free |-> HEAP_START,
      heap_initialized |-> FALSE,
      total_allocated |-> 0,
      peak_usage |-> 0,
      allocation_count |-> 0,
      free_count |-> 0,
      alloc_records |-> <<>>,
      next |-> [a \in HeapAddrs |-> 0] ]

\* get_size_class_index: the first class that fits, -1 when none does.
get_size_class_index(size) ==
    IF \E i \in Classes : size <= size_classes[i]
    THEN CHOOSE i \in Classes :
             /\ size <= size_classes[i]
             /\ \A j \in Classes : size <= size_classes[j] => i <= j
    ELSE -1

\* allocate_slab: the heap after the call and the slab (0 when exhausted).
allocate_slab(h, obj_size, count) ==
    IF h.heap_next_free + ALIGN_UP(obj_size * count, HEAP_ALIGN) > HEAP_END
    THEN [h |-> h, slab |-> 0]
    ELSE [h |-> [h EXCEPT !.heap_next_free =
                              @ + ALIGN_UP(obj_size * count, HEAP_ALIGN)],
          slab |-> h.heap_next_free]

\* The loops at lines 137-142 and 166-171: object i of the slab is pushed on
\* the free list of the class.
RECURSIVE LinkSlab(_, _, _, _, _)
LinkSlab(h, class_idx, slab, count, i) ==
    IF i >= count THEN h
    ELSE LinkSlab(
           [h EXCEPT
              !.next[slab + i * size_classes[class_idx]] =
                  h.size_class_allocators[class_idx].free_list,
              !.size_class_allocators[class_idx].free_list =
                  slab + i * size_classes[class_idx]],
           class_idx, slab, count, i + 1)

\* init_size_class, lines 125-147: r is the result of allocate_slab.
InitSlab(r, class_idx) ==
    IF r.slab = 0 THEN [h |-> r.h, ok |-> FALSE]
    ELSE [h |-> LinkSlab(
                  [r.h EXCEPT !.size_class_allocators[class_idx] =
                      [ free_list |-> 0, total_objects |-> INITIAL_OBJECTS,
                        free_objects |-> INITIAL_OBJECTS, alloc_count |-> 0,
                        free_count |-> 0 ]],
                  class_idx, r.slab, INITIAL_OBJECTS, 0),
          ok |-> TRUE]

init_size_class(h, class_idx) ==
    InitSlab(allocate_slab(h, size_classes[class_idx], INITIAL_OBJECTS),
             class_idx)

\* expand_size_class, lines 161-179: r is the result of allocate_slab.
ExpandSlab(r, class_idx, new_objects) ==
    IF r.slab = 0 THEN [h |-> r.h, ok |-> FALSE]
    ELSE [h |-> [LinkSlab(r.h, class_idx, r.slab, new_objects, 0) EXCEPT
                    !.size_class_allocators[class_idx].total_objects =
                        @ + new_objects,
                    !.size_class_allocators[class_idx].free_objects =
                        @ + new_objects],
          ok |-> TRUE]

ExpandBy(h, class_idx, new_objects) ==
    ExpandSlab(allocate_slab(h, size_classes[class_idx], new_objects),
               class_idx, new_objects)

\* expand_size_class growing the class by the floor, whatever its size.
expand_size_class_fixed(h, class_idx) ==
    ExpandBy(h, class_idx, EXPAND_MIN_OBJECTS)

expand_size_class(h, class_idx) ==
    ExpandBy(h, class_idx,
             IF h.size_class_allocators[class_idx].total_objects
                    < EXPAND_MIN_OBJECTS
             THEN EXPAND_MIN_OBJECTS
             ELSE h.size_class_allocators[class_idx].total_objects)

\* kheap_init, lines 237-244: r is the result of init_size_class for class i.
RECURSIVE InitClasses(_, _)
InitNext(r, i) == IF ~r.ok THEN r.h ELSE InitClasses(r.h, i + 1)

InitClasses(h, i) ==
    IF i >= NUM_SIZE_CLASSES THEN [h EXCEPT !.heap_initialized = TRUE]
    ELSE InitNext(init_size_class(h, i), i)

kheap_init(h) == InitClasses(h, 0)

\* --------------------------------------------------------- heap: kmalloc

\* Lines 273-281: a large request goes to the frame allocator; a is the result
\* of pmm_alloc_pages.
KmallocLarge(st, a, pages) ==
    [ st |-> [ heap |-> IF a.ret = 0 THEN st.heap
                        ELSE [st.heap EXCEPT
                                !.total_allocated = @ + pages * PAGE_SIZE,
                                !.peak_usage =
                                    IF st.heap.total_allocated + pages * PAGE_SIZE > @
                                    THEN st.heap.total_allocated + pages * PAGE_SIZE
                                    ELSE @],
               pmm |-> a.s ],
      ret |-> a.ret ]

\* Lines 298-313: the head of the free list is popped and the object cleared.
KmallocPop(st, h, class_idx) ==
    IF h.size_class_allocators[class_idx].free_list = 0
    THEN [st |-> [st EXCEPT !.heap = h], ret |-> 0]
    ELSE [ st |-> [st EXCEPT !.heap =
             [h EXCEPT
                !.size_class_allocators[class_idx].free_list =
                    h.next[h.size_class_allocators[class_idx].free_list],
                !.size_class_allocators[class_idx].free_objects =
                    (@ - 1) % SIZE_MOD,
                !.size_class_allocators[class_idx].alloc_count = @ + 1,
                !.next = [a \in HeapAddrs |->
                            IF /\ a >= h.size_class_allocators[class_idx].free_list
                               /\ a < h.size_class_allocators[class_idx].free_list
                                        + size_classes[class_idx]
                            THEN 0 ELSE h.next[a]]]],
           ret |-> h.size_class_allocators[class_idx].free_list ]

\* Lines 290-295: r is the result of expand_size_class.
KmallocExpanded(st, r, class_idx) ==
    IF ~r.ok THEN [st |-> [st EXCEPT !.heap = r.h], ret |-> 0]
    ELSE KmallocPop(st, r.h, class_idx)

KmallocSmall(st, class_idx) ==
    IF st.heap.size_class_allocators[class_idx].free_objects = 0
    THEN KmallocExpanded(st, expand_size_class(st.heap, class_idx), class_idx)
    ELSE KmallocPop(st, st.heap, class_idx)

\* Lines 269-285: size is the request after alignment.
KmallocClass(st, size, class_idx) ==
    IF class_idx < 0
    THEN IF size > LARGE_ALLOC_THRESHOLD
         THEN KmallocLarge(st,
                  pmm_alloc_pages(st.pmm, (size + PAGE_SIZE - 1) \div PAGE_SIZE),
                  (size + PAGE_SIZE - 1) \div PAGE_SIZE)
         ELSE KmallocSmall(st, NUM_SIZE_CLASSES - 1)
    ELSE KmallocSmall(st, class_idx)

KmallocAligned(st, size) == KmallocClass(st, size, get_size_class_index(size))

\* kmalloc: st is [heap, pmm]; the state after the call and the pointer
\* returned (0 for NULL).
kmalloc(st, size) ==
    IF size = 0 \/ ~st.heap.heap_initialized THEN [st |-> st, ret |-> 0]
    ELSE KmallocAligned([st EXCEPT !.heap.allocation_count = @ + 1],
                        ALIGN_UP(IF size < HEAP_ALIGN THEN HEAP_ALIGN ELSE size,
                                 HEAP_ALIGN))

\* ----------------------------------------------------------- heap: kfree

\* kfree: the heap after the call.  The loop at lines 369-374 leaves
\* class_idx at 0 for every pointer.
kfree(h, ptr) ==
    IF ptr = 0 \/ ~h.heap_initialized THEN h
    ELSE IF ptr < HEAP_START \/ ptr >= HEAP_END
         THEN [h EXCEPT !.free_count = @ + 1]
         ELSE [h EXCEPT
                 !.free_count = @ + 1,
                 !.next[ptr] = h.size_class_allocators[0].free_list,
                 !.size_class_allocators[0].free_list = ptr,
                 !.size_class_allocators[0].free_objects = @ + 1,
                 !.size_class_allocators[0].free_count = @ + 1]

\* ------------------------------------------------- heap: tracked calls

\* track_allocation for a non-null ptr: the record is taken from the bump
\* pointer and put at the head of alloc_records; without room the call does
\* nothing.
track_allocation(h, ptr, size) ==
    IF h.heap_next_free + ALLOC_RECORD_SIZE > HEAP_END THEN h
    ELSE [h EXCEPT
            !.heap_next_free = @ + ALIGN_UP(ALLOC_RECORD_SIZE, HEAP_ALIGN),
            !.alloc_records = <<[ptr |-> ptr, size |-> size]>> \o @,
            !.total_allocated = @ + size,
            !.peak_usage = IF h.total_allocated + size > @
                           THEN h.total_allocated + size ELSE @]

\* Position of the first record of ptr in the list, 0 when there is none.
RECURSIVE FindRecord(_, _, _)
FindRecord(records, ptr, i) ==
    IF i > Len(records) THEN 0
    ELSE IF records[i].ptr = ptr THEN i
         ELSE FindRecord(records, ptr, i + 1)

\* Lines 214-219: the record at position i is unlinked.
RemoveRecord(h, i) ==
    IF i = 0 THEN h
    ELSE [h EXCEPT
            !.total_allocated = (@ - h.alloc_records[i].size) % SIZE_MOD,
            !.alloc_records = SubSeq(@, 1, i - 1) \o SubSeq(@, i + 1, Len(@))]

untrack_allocation(h, ptr) ==
    IF ptr = 0 THEN h ELSE RemoveRecord(h, FindRecord(h.alloc_records, ptr, 1))

\* kmalloc_tracked, lines 399-402: r is the result of kmalloc.
TrackResult(r, size) ==
    IF r.ret = 0 THEN r
    ELSE [r EXCEPT !.st.heap = track_allocation(@, r.ret, size)]

kmalloc_tracked(st, size) == TrackResult(kmalloc(st, size), size)

kfree_tracked(h, ptr) ==
    IF ptr = 0 THEN h ELSE kfree(untrack_allocation(h, ptr), ptr)

\* --------------------------------------------------------- heap: actions

HeapState == [heap |-> heap, pmm |-> pmm]

\* No caller of krealloc holds a block yet.
NoContents ==
    [ bytes |-> [a \in HeapAddrs |-> 0], owned |-> {},
      last |-> <<0, 0, 0, 0>> ]

\* r is the result of kmalloc, one of at most max calls.
KmallocUpTo(r, max) ==
    /\ r.st.heap.allocation_count <= max
    /\ BagCardinality(heap_live) < MaxHeapLive
    /\ heap' = r.st.heap
    /\ pmm' = r.st.pmm
    /\ heap_live' = IF r.ret = 0 THEN heap_live
                    ELSE heap_live (+) SetToBag({r.ret})
    /\ heap_freed' = heap_freed \ {r.ret}
    /\ UNCHANGED <<contents, live, last_freed, double_freed, vmVars,
                   schedVars>>

\* r is the result of kmalloc.
KmallocStep(r) == KmallocUpTo(r, MaxKmallocs)

\* A caller asks for size bytes.
Kmalloc == \E size \in 1 .. MaxKmallocSize : KmallocStep(kmalloc(HeapState, size))

\* A caller frees a pointer it holds.
KfreeOwned ==
    \E ptr \in BagToSet(heap_live) :
        /\ heap.free_count < MaxKfrees
        /\ heap' = kfree(heap, ptr)
        /\ heap_live' = heap_live (-) SetToBag({ptr})
        /\ heap_freed' = IF ptr \in HeapAddrs /\ CopiesIn(ptr, heap_live) = 1
                         THEN heap_freed \cup {ptr} ELSE heap_freed
        /\ UNCHANGED <<contents, pmm, live, last_freed, double_freed, vmVars,
                       schedVars>>

\* A caller frees again a heap pointer that is already free (a double free).
KfreeAgain(ptr) ==
    /\ ptr \in heap_freed
    /\ heap.free_count < MaxKfrees
    /\ heap' = kfree(heap, ptr)
    /\ UNCHANGED <<contents, heap_live, heap_freed, pmm, live, last_freed,
                   double_freed, vmVars, schedVars>>

KfreeTwice == \E ptr \in HeapAddrs : KfreeAgain(ptr)

\* A caller asks for size bytes through the tracked interface; size 0 is
\* among the requests.
KmallocTracked ==
    \E size \in 0 .. MaxKmallocSize :
        KmallocStep(kmalloc_tracked(HeapState, size))

\* A caller frees a pointer it holds through the tracked interface.
KfreeTrackedOwned ==
    \E ptr \in BagToSet(heap_live) :
        /\ heap.free_count < MaxKfrees
        /\ heap' = kfree_tracked(heap, ptr)
        /\ heap_live' = heap_live (-) SetToBag({ptr})
        /\ heap_freed' = IF ptr \in HeapAddrs /\ CopiesIn(ptr, heap_live) = 1
                         THEN heap_freed \cup {ptr} ELSE heap_freed
        /\ UNCHANGED <<contents, pmm, live, last_freed, double_freed, vmVars,
                       schedVars>>

\* A caller passes kfree_tracked a pointer that has no record: one it has
\* freed before.
KfreeTrackedNoRecord ==
    \E ptr \in heap_freed :
        /\ heap.free_count < MaxKfrees
        /\ FindRecord(heap.alloc_records, ptr, 1) = 0
        /\ heap' = kfree_tracked(heap, ptr)
        /\ UNCHANGED <<contents, heap_live, heap_freed, pmm, live, last_freed,
                       double_freed, vmVars, schedVars>>

\* ------------------------------------------------- scheduler: run queues

Cpus == 0 .. (MAX_CPUS - 1)

EmptyRunqueue ==
    [ ready_queue_head |-> NoTask, ready_queue_tail |-> NoTask,
      running_task |-> NoTask, total_tasks |-> 0, idle_time |-> 0,
      busy_time |-> 0, load |-> 0 ]

\* The globals of scheduler.c before scheduler_init.
SchedZero ==
    [ tasks |-> <<>>,
      cpu_runqueues |-> [c \in Cpus |-> EmptyRunqueue],
      num_cpus |-> 1,
      next_task_id |-> 0,
      global_ticks |-> 0,
      context_switches |-> 0,
      load_balances |-> 0,
      started |-> FALSE ]

\* The task structure of id: tasks is indexed from 1, ids start at 0.
Task(s, id) == s.tasks[id + 1]

TaskIds(s) == 0 .. (Len(s.tasks) - 1)

\* The run queue of the current CPU: cpu is 0 throughout scheduler.c.
Rq0(s) == s.cpu_runqueues[0]

\* detect_workload
detect_workload(task) ==
    IF task.priority <= PRIORITY_RT_MAX THEN WORKLOAD_REALTIME
    ELSE IF task.cpu_time + task.io_wait_time = 0 THEN WORKLOAD_INTERACTIVE
    ELSE IF (task.io_wait_time * 100) \div (task.cpu_time + task.io_wait_time)
                > IO_WAIT_THRESHOLD
         THEN WORKLOAD_IO
    ELSE IF (task.cpu_time * 100) \div (task.cpu_time + task.io_wait_time)
                > CPU_INTENSIVE_MIN
         THEN WORKLOAD_COMPUTE
    ELSE IF task.voluntary_yields > YIELDS_INTERACTIVE
         THEN WORKLOAD_INTERACTIVE
    ELSE WORKLOAD_INTERACTIVE

get_time_quantum(workload) ==
    CASE workload = WORKLOAD_INTERACTIVE -> QUANTUM_INTERACTIVE
      [] workload = WORKLOAD_COMPUTE -> QUANTUM_COMPUTE
      [] workload = WORKLOAD_IO -> QUANTUM_IO
      [] workload = WORKLOAD_REALTIME -> QUANTUM_REALTIME
      [] OTHER -> QUANTUM_INTERACTIVE

\* scheduler_enqueue linking the task in front of the head.
scheduler_enqueue_front(s, cpu, id) ==
    IF s.cpu_runqueues[cpu].ready_queue_head = NoTask
    THEN [s EXCEPT !.tasks[id + 1].next = NoTask,
                   !.cpu_runqueues[cpu].ready_queue_head = id,
                   !.cpu_runqueues[cpu].ready_queue_tail = id,
                   !.cpu_runqueues[cpu].total_tasks = @ + 1,
                   !.cpu_runqueues[cpu].load = @ + 1]
    ELSE [s EXCEPT !.tasks[id + 1].next =
                       s.cpu_runqueues[cpu].ready_queue_head,
                   !.cpu_runqueues[cpu].ready_queue_head = id,
                   !.cpu_runqueues[cpu].total_tasks = @ + 1,
                   !.cpu_runqueues[cpu].load = @ + 1]

\* scheduler_enqueue: the task is linked behind the tail.
scheduler_enqueue(s, cpu, id) ==
    IF s.cpu_runqueues[cpu].ready_queue_head = NoTask
    THEN [s EXCEPT !.tasks[id + 1].next = NoTask,
                   !.cpu_runqueues[cpu].ready_queue_head = id,
                   !.cpu_runqueues[cpu].ready_queue_tail = id,
                   !.cpu_runqueues[cpu].total_tasks = @ + 1,
                   !.cpu_runqueues[cpu].load = @ + 1]
    ELSE [s EXCEPT !.tasks =
                       [[@ EXCEPT ![id + 1].next = NoTask] EXCEPT
                           ![s.cpu_runqueues[cpu].ready_queue_tail + 1].next = id],
                   !.cpu_runqueues[cpu].ready_queue_tail = id,
                   !.cpu_runqueues[cpu].total_tasks = @ + 1,
                   !.cpu_runqueues[cpu].load = @ + 1]

\* scheduler_dequeue without the reset of the tail when the queue runs empty.
scheduler_dequeue_stale_tail(s, cpu) ==
    IF s.cpu_runqueues[cpu].ready_queue_head = NoTask
    THEN [s |-> s, task |-> NoTask]
    ELSE [ s |-> [s EXCEPT
                    !.cpu_runqueues[cpu].ready_queue_head =
                        Task(s, s.cpu_runqueues[cpu].ready_queue_head).next,
                    !.tasks[s.cpu_runqueues[cpu].ready_queue_head + 1].next =
                        NoTask,
                    !.cpu_runqueues[cpu].load = (@ - 1) % SIZE_MOD],
           task |-> s.cpu_runqueues[cpu].ready_queue_head ]

\* scheduler_dequeue: the state after the call and the task returned.
scheduler_dequeue(s, cpu) ==
    IF s.cpu_runqueues[cpu].ready_queue_head = NoTask
    THEN [s |-> s, task |-> NoTask]
    ELSE [ s |-> [s EXCEPT
                    !.cpu_runqueues[cpu].ready_queue_head =
                        Task(s, s.cpu_runqueues[cpu].ready_queue_head).next,
                    !.cpu_runqueues[cpu].ready_queue_tail =
                        IF Task(s, s.cpu_runqueues[cpu].ready_queue_head).next
                               = NoTask
                        THEN NoTask ELSE @,
                    !.tasks[s.cpu_runqueues[cpu].ready_queue_head + 1].next =
                        NoTask,
                    !.cpu_runqueues[cpu].load = (@ - 1) % SIZE_MOD],
           task |-> s.cpu_runqueues[cpu].ready_queue_head ]

\* The tasks of a ready queue in order, following the next pointers from the
\* head for at most n links.
RECURSIVE QueueFrom(_, _, _)
QueueFrom(s, id, n) ==
    IF id = NoTask \/ n = 0 THEN <<>>
    ELSE <<id>> \o QueueFrom(s, Task(s, id).next, n - 1)

ReadyQueue(s, cpu) ==
    QueueFrom(s, s.cpu_runqueues[cpu].ready_queue_head, Len(s.tasks) + 1)

\* No call into the scheduler is in progress.
CtxIdle == [pc |-> "idle", self |-> NoTask, current |-> NoTask, next |-> NoTask]

\* The busiest other CPU among i .. num_cpus - 1, from the busiest found so
\* far (the loop of balance_load).
RECURSIVE BusiestFrom(_, _, _, _, _)
BusiestFrom(s, cpu, i, busiest_cpu, max_load) ==
    IF i >= s.num_cpus THEN [busiest_cpu |-> busiest_cpu, max_load |-> max_load]
    ELSE IF i # cpu /\ s.cpu_runqueues[i].load > max_load + STEAL_MARGIN
         THEN BusiestFrom(s, cpu, i + 1, i, s.cpu_runqueues[i].load)
    ELSE BusiestFrom(s, cpu, i + 1, busiest_cpu, max_load)

\* d is the result of scheduler_dequeue on the busiest CPU.
StealTask(d, cpu) ==
    IF d.task = NoTask THEN d.s
    ELSE [scheduler_enqueue([d.s EXCEPT !.tasks[d.task + 1].last_cpu = cpu],
                            cpu, d.task)
            EXCEPT !.load_balances = @ + 1]

\* b is the result of the search for the busiest CPU.
StealFrom(s, cpu, b) ==
    IF b.busiest_cpu >= 0 /\ b.max_load > STEAL_MIN_LOAD
    THEN StealTask(scheduler_dequeue(s, b.busiest_cpu), cpu)
    ELSE s

balance_load(s, cpu) ==
    IF s.cpu_runqueues[cpu].load > 0 THEN s
    ELSE StealFrom(s, cpu, BusiestFrom(s, cpu, 0, -1, 0))

\* -------------------------------------------------- scheduler: operations

\* scheduler_schedule, "save current task if still runnable".
Requeue(s, current) ==
    IF current # NoTask /\ Task(s, current).state = TASK_RUNNING
    THEN scheduler_enqueue([s EXCEPT !.tasks[current + 1].state = TASK_READY],
                           0, current)
    ELSE s

\* scheduler_schedule, "switch to next task".
Dispatch(s, next) ==
    [s EXCEPT !.tasks[next + 1].state = TASK_RUNNING,
              !.tasks[next + 1].last_run = s.global_ticks,
              !.tasks[next + 1].last_cpu = 0,
              !.cpu_runqueues[0].running_task = next,
              !.context_switches = @ + 1]

\* d is the result of scheduler_dequeue(0), current the task that was running.
ScheduleNext(d, current) ==
    IF d.task = NoTask THEN d.s
    ELSE Dispatch(Requeue(d.s, current), d.task)

scheduler_schedule(s) ==
    ScheduleNext(scheduler_dequeue(s, 0), s.cpu_runqueues[0].running_task)

\* scheduler_tick, "update statistics" and "decrement time slice".
TickCharge(s, current) ==
    [s EXCEPT !.tasks[current + 1].cpu_time = @ + 1,
              !.cpu_runqueues[0].busy_time = @ + 1,
              !.tasks[current + 1].ticks_remaining =
                  IF @ > 0 THEN @ - 1 ELSE @]

\* scheduler_tick, "re-detect workload" and "assign new time slice".
TickRequantum(s, current, workload) ==
    [s EXCEPT !.tasks[current + 1].workload = workload,
              !.tasks[current + 1].time_slice = get_time_quantum(workload),
              !.tasks[current + 1].ticks_remaining = get_time_quantum(workload)]

\* scheduler_tick, "time slice expired?".
TickExpire(s, current) ==
    IF Task(s, current).ticks_remaining = 0
    THEN scheduler_schedule(
             TickRequantum(s, current, detect_workload(Task(s, current))))
    ELSE s

\* scheduler_tick, "periodic load balancing".
TickBalance(s) ==
    IF s.global_ticks % BALANCE_PERIOD = 0 THEN balance_load(s, 0) ELSE s

\* s is the state after global_ticks++.
TickRun(s, current) ==
    IF current = NoTask THEN s
    ELSE TickBalance(TickExpire(TickCharge(s, current), current))

scheduler_tick(s) ==
    TickRun([s EXCEPT !.global_ticks = @ + 1],
            s.cpu_runqueues[0].running_task)

\* scheduler_yield, the body of "if (current)".
YieldMark(s, current) ==
    IF current = NoTask THEN s
    ELSE [s EXCEPT !.tasks[current + 1].voluntary_yields = @ + 1,
                   !.tasks[current + 1].ticks_remaining = 0]

scheduler_yield(s) ==
    scheduler_schedule(YieldMark(s, s.cpu_runqueues[0].running_task))

scheduler_terminate(s) ==
    IF s.cpu_runqueues[0].running_task = NoTask THEN s
    ELSE scheduler_schedule(
             [s EXCEPT !.tasks[s.cpu_runqueues[0].running_task + 1].state =
                           TASK_TERMINATED])

\* scheduler_kill_task: logs and returns 0.
scheduler_kill_task(s, pid) == [s |-> s, ret |-> 0]

\* scheduler_get_task_state
scheduler_get_task_state(s, pid) == TASK_RUNNING

\* The idle task as scheduler_init fills it in; kmalloc zeroed the fields it
\* does not set.
IdleTask(ptr) ==
    [ state |-> TASK_RUNNING, tcb |-> ptr, stack_bottom |-> 0,
      priority |-> PRIORITY_BATCH,
      workload |-> WORKLOAD_INTERACTIVE,
      time_slice |-> QUANTUM_INTERACTIVE,
      ticks_remaining |-> QUANTUM_INTERACTIVE,
      cpu_time |-> 0, io_wait_time |-> 0, last_run |-> 0,
      voluntary_yields |-> 0,
      cpu_affinity |-> AFFINITY_CPU0, last_cpu |-> 0, next |-> NoTask ]

\* r is the result of kmalloc_tracked(sizeof(task_t)); st holds heap, pmm and
\* sched. A failed allocation is a PANIC: ok is FALSE and the kernel halts.
InitIdle(st, r) ==
    IF r.ret = 0 THEN [st |-> st, ok |-> FALSE]
    ELSE [ st |-> [ heap |-> r.st.heap, pmm |-> r.st.pmm,
                    sched |-> [st.sched EXCEPT
                        !.num_cpus = 1,
                        !.cpu_runqueues[0] =
                            [EmptyRunqueue EXCEPT !.running_task =
                                                      st.sched.next_task_id],
                        !.tasks = Append(@, IdleTask(r.ret)),
                        !.next_task_id = @ + 1,
                        !.started = TRUE] ],
           ok |-> TRUE ]

scheduler_init(st) ==
    InitIdle(st, kmalloc_tracked([heap |-> st.heap, pmm |-> st.pmm],
                                 TASK_T_SIZE))

\* A task structure whose cpu_affinity was never assigned: kmalloc's zero.
NewTaskAffinityUnset(ptr, stack, priority) ==
    [ state |-> TASK_READY, tcb |-> ptr, stack_bottom |-> stack,
      priority |-> priority,
      workload |-> WORKLOAD_INTERACTIVE,
      time_slice |-> get_time_quantum(WORKLOAD_INTERACTIVE),
      ticks_remaining |-> get_time_quantum(WORKLOAD_INTERACTIVE),
      cpu_time |-> 0, io_wait_time |-> 0, last_run |-> 0,
      voluntary_yields |-> 0,
      cpu_affinity |-> 0, last_cpu |-> 0, next |-> NoTask ]

\* The task structure scheduler_create_task fills in.
NewTask(ptr, stack, priority) ==
    [ state |-> TASK_READY, tcb |-> ptr, stack_bottom |-> stack,
      priority |-> priority,
      workload |-> WORKLOAD_INTERACTIVE,
      time_slice |-> get_time_quantum(WORKLOAD_INTERACTIVE),
      ticks_remaining |-> get_time_quantum(WORKLOAD_INTERACTIVE),
      cpu_time |-> 0, io_wait_time |-> 0, last_run |-> 0,
      voluntary_yields |-> 0,
      cpu_affinity |-> AFFINITY_ANY, last_cpu |-> 0, next |-> NoTask ]

\* The failure path without its kfree_tracked(task): the task structure stays
\* allocated when the stack cannot be had.
CreateWithStackLeak(st, r2, ptr, priority) ==
    IF r2.ret = 0
    THEN [ st |-> [ heap |-> r2.st.heap,
                    pmm |-> r2.st.pmm, sched |-> st.sched ],
           ret |-> -1 ]
    ELSE [ st |-> [ heap |-> r2.st.heap, pmm |-> r2.st.pmm,
                    sched |-> scheduler_enqueue(
                        [st.sched EXCEPT
                            !.tasks = Append(@, NewTask(ptr, r2.ret, priority)),
                            !.next_task_id = @ + 1],
                        0, st.sched.next_task_id) ],
           ret |-> st.sched.next_task_id ]

\* r2 is the result of the stack allocation, ptr the task structure.
CreateWithStack(st, r2, ptr, priority) ==
    IF r2.ret = 0
    THEN [ st |-> [ heap |-> kfree_tracked(r2.st.heap, ptr),
                    pmm |-> r2.st.pmm, sched |-> st.sched ],
           ret |-> -1 ]
    ELSE [ st |-> [ heap |-> r2.st.heap, pmm |-> r2.st.pmm,
                    sched |-> scheduler_enqueue(
                        [st.sched EXCEPT
                            !.tasks = Append(@, NewTask(ptr, r2.ret, priority)),
                            !.next_task_id = @ + 1],
                        0, st.sched.next_task_id) ],
           ret |-> st.sched.next_task_id ]

\* r1 is the result of the allocation of the task structure.
CreateWithTask(st, r1, stack_size, priority) ==
    IF r1.ret = 0 THEN [st |-> st, ret |-> -1]
    ELSE CreateWithStack(st, kmalloc_tracked(r1.st, stack_size), r1.ret,
                         priority)

\* entry is TRUE for a function pointer, FALSE for NULL.
scheduler_create_task(st, entry, stack_size, priority) ==
    IF ~entry \/ stack_size < PAGE_SIZE THEN [st |-> st, ret |-> -1]
    ELSE CreateWithTask(st,
             kmalloc_tracked([heap |-> st.heap, pmm |-> st.pmm], TASK_T_SIZE),
             stack_size, priority)

\* scheduler_create_task_fork
scheduler_create_task_fork(st) ==
    scheduler_create_task(st, FALSE, PAGE_SIZE, PRIORITY_NORMAL)

\* ----------------------------------------------------- scheduler: actions

SchedState == [heap |-> heap, pmm |-> pmm, sched |-> sched]

\* r is the result of an operation on heap, pmm and sched.
SchedCommit(r) ==
    /\ heap' = r.st.heap
    /\ pmm' = r.st.pmm
    /\ sched' = r.st.sched
    /\ UNCHANGED <<contents, heap_live, heap_freed, live, last_freed, double_freed,
                   vmVars, ctx, killed, fork_ret>>

\* main calls scheduler_init once, after kheap_init.
SchedInit ==
    /\ ~sched.started
    /\ ctx.pc = "idle"
    /\ scheduler_init(SchedState).ok
    /\ SchedCommit(scheduler_init(SchedState))

Priorities == {PRIORITY_RT_MAX, PRIORITY_NORMAL}

StackSizes == {PAGE_SIZE - 1, PAGE_SIZE}

\* A caller creates a task.
SchedCreateTask ==
    /\ sched.started
    /\ ctx.pc = "idle"
    /\ sched.next_task_id <= MaxTasks
    /\ heap.allocation_count < MaxSchedAllocs
    /\ \E stack_size \in StackSizes, priority \in Priorities :
           SchedCommit(scheduler_create_task(SchedState, TRUE, stack_size,
                                             priority))

\* The timer interrupt: handle_irq runs timer_tick, which runs scheduler_tick.
TimerTick ==
    /\ sched.started
    /\ sched' = scheduler_tick(sched)
    /\ UNCHANGED <<pfaVars, vmVars, heapVars, ctx, killed, fork_ret>>

SchedTick == sched.global_ticks < MaxTicks /\ TimerTick

\* The yield_now calls so far: the voluntary_yields of the first n tasks.
RECURSIVE YieldCount(_, _)
YieldCount(s, n) ==
    IF n = 0 THEN 0 ELSE s.tasks[n].voluntary_yields + YieldCount(s, n - 1)

\* The running code calls yield_now.
SchedYield ==
    /\ sched.started
    /\ ctx.pc = "idle"
    /\ YieldCount(sched, Len(sched.tasks)) < MaxYields
    /\ sched' = scheduler_yield(sched)
    /\ UNCHANGED <<pfaVars, vmVars, heapVars, ctx, killed, fork_ret>>

\* The running code calls exit.
SchedTerminate ==
    /\ sched.started
    /\ ctx.pc = "idle"
    /\ sched.cpu_runqueues[0].running_task # NoTask
    /\ Task(sched, sched.cpu_runqueues[0].running_task).state = TASK_RUNNING
    /\ sched' = scheduler_terminate(sched)
    /\ UNCHANGED <<pfaVars, vmVars, heapVars, ctx, killed, fork_ret>>

\* A caller kills a task other than the idle task: process_kill passes the
\* pid to scheduler_kill_task.
SchedKill ==
    /\ sched.started
    /\ ctx.pc = "idle"
    /\ \E pid \in TaskIds(sched) \ ({0} \cup killed) :
           /\ sched' = scheduler_kill_task(sched, pid).s
           /\ killed' = killed \cup {pid}
    /\ UNCHANGED <<pfaVars, vmVars, heapVars, ctx, fork_ret>>

\* A caller creates one of the four compute-bound tasks: normal priority, a
\* stack of one page; they never yield. The scenario is the one in which the
\* four creations succeed.
ComputeCreateTask ==
    /\ sched.started
    /\ ctx.pc = "idle"
    /\ sched.next_task_id <= COMPUTE_TASKS
    /\ scheduler_create_task(SchedState, TRUE, PAGE_SIZE, PRIORITY_NORMAL).ret
           # -1
    /\ SchedCommit(scheduler_create_task(SchedState, TRUE, PAGE_SIZE,
                                         PRIORITY_NORMAL))

\* The timer interrupt once the four tasks exist, for 200 ticks.
ComputeTick ==
    /\ sched.next_task_id > COMPUTE_TASKS
    /\ sched.global_ticks < COMPUTE_TICKS
    /\ TimerTick

\* A caller creates the one normal-priority task of the yield scenario.
InteractiveCreateTask ==
    /\ sched.started
    /\ ctx.pc = "idle"
    /\ sched.next_task_id <= 1
    /\ scheduler_create_task(SchedState, TRUE, PAGE_SIZE, PRIORITY_NORMAL).ret
           # -1
    /\ SchedCommit(scheduler_create_task(SchedState, TRUE, PAGE_SIZE,
                                         PRIORITY_NORMAL))

\* The running task calls yield_now, each task up to MaxYieldRun times.
InteractiveYield ==
    /\ sched.started
    /\ Rq0(sched).running_task # NoTask
    /\ Task(sched, Rq0(sched).running_task).voluntary_yields < MaxYieldRun
    /\ sched' = scheduler_yield(sched)
    /\ UNCHANGED <<pfaVars, vmVars, heapVars, ctx, killed, fork_ret>>

\* The timer interrupt, a few times among the yields.
InteractiveTick == sched.global_ticks < MaxYieldTicks /\ TimerTick

\* ------------------------------- scheduler: calls the timer can interrupt

\* main enables interrupts before the tasks run and the scheduler never
\* disables them: the timer interrupt, which runs scheduler_tick to the end
\* (an interrupt gate), can arrive between any two statements of
\* scheduler_yield, scheduler_terminate and scheduler_schedule. One statement
\* of these, ctx.pc, on the state s; the result is the state and the context
\* after it.
Goto(s, c, pc) == [s |-> s, c |-> [c EXCEPT !.pc = pc]]

StepYield(s, c) ==
    CASE c.pc = "y_load" ->
            Goto(s, [c EXCEPT !.self = Rq0(s).running_task],
                 IF Rq0(s).running_task = NoTask THEN "s_load" ELSE "y_count")
      [] c.pc = "y_count" ->
            Goto([s EXCEPT !.tasks[c.self + 1].voluntary_yields = @ + 1],
                 c, "y_zero")
      [] c.pc = "y_zero" ->
            Goto([s EXCEPT !.tasks[c.self + 1].ticks_remaining = 0],
                 c, "s_load")

StepTerminate(s, c) ==
    CASE c.pc = "t_load" ->
            Goto(s, [c EXCEPT !.self = Rq0(s).running_task],
                 IF Rq0(s).running_task = NoTask THEN "idle" ELSE "t_state")
      [] c.pc = "t_state" ->
            Goto([s EXCEPT !.tasks[c.self + 1].state = TASK_TERMINATED],
                 c, "s_load")

\* The statements of scheduler_dequeue(0) inlined in scheduler_schedule.
StepDequeue(s, c) ==
    CASE c.pc = "dq_load" ->
            Goto(s, [c EXCEPT !.next = Rq0(s).ready_queue_head],
                 IF Rq0(s).ready_queue_head = NoTask THEN "idle"
                 ELSE "dq_head")
      [] c.pc = "dq_head" ->
            Goto([s EXCEPT !.cpu_runqueues[0].ready_queue_head =
                               Task(s, c.next).next],
                 c, "dq_tail")
      [] c.pc = "dq_tail" ->
            Goto(IF Rq0(s).ready_queue_head = NoTask
                 THEN [s EXCEPT !.cpu_runqueues[0].ready_queue_tail = NoTask]
                 ELSE s,
                 c, "dq_next")
      [] c.pc = "dq_next" ->
            Goto([s EXCEPT !.tasks[c.next + 1].next = NoTask], c, "dq_load_dec")
      [] c.pc = "dq_load_dec" ->
            Goto([s EXCEPT !.cpu_runqueues[0].load = (@ - 1) % SIZE_MOD],
                 c, "s_check")

\* The statements of scheduler_enqueue(0, current) inlined in
\* scheduler_schedule.
StepEnqueue(s, c) ==
    CASE c.pc = "eq_next" ->
            Goto([s EXCEPT !.tasks[c.current + 1].next = NoTask], c, "eq_link")
      [] c.pc = "eq_link" ->
            IF Rq0(s).ready_queue_head = NoTask
            THEN Goto([s EXCEPT !.cpu_runqueues[0].ready_queue_tail =
                                    c.current],
                      c, "eq_head")
            ELSE Goto([s EXCEPT !.tasks[Rq0(s).ready_queue_tail + 1].next =
                                    c.current],
                      c, "eq_tail")
      [] c.pc = "eq_head" ->
            Goto([s EXCEPT !.cpu_runqueues[0].ready_queue_head = c.current],
                 c, "eq_total")
      [] c.pc = "eq_tail" ->
            Goto([s EXCEPT !.cpu_runqueues[0].ready_queue_tail = c.current],
                 c, "eq_total")
      [] c.pc = "eq_total" ->
            Goto([s EXCEPT !.cpu_runqueues[0].total_tasks = @ + 1],
                 c, "eq_load_inc")
      [] c.pc = "eq_load_inc" ->
            Goto([s EXCEPT !.cpu_runqueues[0].load = (@ + 1) % SIZE_MOD],
                 c, "s_run")

StepSchedule(s, c) ==
    CASE c.pc = "s_load" ->
            Goto(s, [c EXCEPT !.current = Rq0(s).running_task], "dq_load")
      [] c.pc = "s_check" ->
            Goto(s, c,
                 IF c.current # NoTask
                    /\ Task(s, c.current).state = TASK_RUNNING
                 THEN "s_ready" ELSE "s_run")
      [] c.pc = "s_ready" ->
            Goto([s EXCEPT !.tasks[c.current + 1].state = TASK_READY],
                 c, "eq_next")
      [] c.pc = "s_run" ->
            Goto([s EXCEPT !.tasks[c.next + 1].state = TASK_RUNNING],
                 c, "s_last_run")
      [] c.pc = "s_last_run" ->
            Goto([s EXCEPT !.tasks[c.next + 1].last_run = s.global_ticks],
                 c, "s_last_cpu")
      [] c.pc = "s_last_cpu" ->
            Goto([s EXCEPT !.tasks[c.next + 1].last_cpu = 0], c, "s_running")
      [] c.pc = "s_running" ->
            Goto([s EXCEPT !.cpu_runqueues[0].running_task = c.next],
                 c, "s_switches")
      [] c.pc = "s_switches" ->
            [s |-> [s EXCEPT !.context_switches = @ + 1], c |-> CtxIdle]

StepOf(s, c) ==
    CASE c.pc \in {"y_load", "y_count", "y_zero"} -> StepYield(s, c)
      [] c.pc \in {"t_load", "t_state"} -> StepTerminate(s, c)
      [] c.pc \in {"dq_load", "dq_head", "dq_tail", "dq_next", "dq_load_dec"} ->
            StepDequeue(s, c)
      [] c.pc \in {"eq_next", "eq_link", "eq_head", "eq_tail", "eq_total",
                   "eq_load_inc"} ->
            StepEnqueue(s, c)
      [] OTHER -> StepSchedule(s, c)

\* r is the result of a statement; a return to the caller clears the locals.
CtxCommit(r) ==
    /\ sched' = r.s
    /\ ctx' = IF r.c.pc = "idle" THEN CtxIdle ELSE r.c
    /\ UNCHANGED <<pfaVars, vmVars, heapVars, killed, fork_ret>>

\* The timer interrupt while calls into the scheduler are under way.
IrqTick == sched.global_ticks < MaxIrqTicks /\ TimerTick

\* The running code enters scheduler_yield.
YieldCall ==
    /\ sched.started
    /\ ctx.pc = "idle"
    /\ sched.context_switches < MaxSwitches
    /\ YieldCount(sched, Len(sched.tasks)) < MaxYields
    /\ ctx' = [ctx EXCEPT !.pc = "y_load"]
    /\ UNCHANGED <<pfaVars, vmVars, heapVars, sched, killed, fork_ret>>

\* The running code enters scheduler_terminate.
TerminateCall ==
    /\ sched.started
    /\ ctx.pc = "idle"
    /\ sched.context_switches < MaxSwitches
    /\ Rq0(sched).running_task # NoTask
    /\ Task(sched, Rq0(sched).running_task).state = TASK_RUNNING
    /\ ctx' = [ctx EXCEPT !.pc = "t_load"]
    /\ UNCHANGED <<pfaVars, vmVars, heapVars, sched, killed, fork_ret>>

\* The code inside the scheduler executes its next statement.
SchedStep ==
    /\ ctx.pc # "idle"
    /\ CtxCommit(StepOf(sched, ctx))

\* ------------------------------------------------------- specifications

\* The state after boot on a machine whose frame allocator starts as p.
InitWith(p) ==
    /\ pmm = p
    /\ vm = EmptyContext
    /\ vm_held = {}
    /\ live = EmptyBag
    /\ last_freed = <<0, 0>>
    /\ double_freed = FALSE
    /\ heap = kheap_init(HeapZero)
    /\ heap_live = EmptyBag
    /\ heap_freed = {}
    /\ sched = SchedZero
    /\ ctx = CtxIdle
    /\ killed = {}
    /\ fork_ret = 0
    /\ mmap_ret = -1
    /\ contents = NoContents

Init == InitWith(pmm_parse_memory_map)

vars == <<pmm, live, last_freed, double_freed, vm, vm_held, heap, heap_live,
          heap_freed, sched, ctx, killed, fork_ret, mmap_ret, contents>>

NextPFA == PmmAlloc \/ PmmFreeOwned

SpecPFA == Init /\ [][NextPFA]_vars

\* The callers' requests followed by repeated frees of one range: once a range
\* has been freed twice no further request is followed.
NextPFAFree == (~double_freed /\ NextPFA) \/ PmmFreeAgain

SpecPFAFree == Init /\ [][NextPFAFree]_vars

\* The virtual memory manager over the frame allocator.
NextVMM == VmmInit \/ VmmMmap \/ VmmMunmap \/ VmmBrk \/ VmmPageFault

SpecVMM == Init /\ [][NextVMM]_vars

\* Callers of the kernel heap: every pointer is freed by its holder, once.
NextHeap == Kmalloc \/ KfreeOwned

SpecHeap == Init /\ [][NextHeap]_vars

\* Callers of the kernel heap that may free a pointer twice.
NextHeapFree == Kmalloc \/ KfreeOwned \/ KfreeTwice

SpecHeapFree == Init /\ [][NextHeapFree]_vars

\* Callers of the tracked heap interface.
NextHeapTracked == KmallocTracked \/ KfreeTrackedOwned \/ KfreeTrackedNoRecord

SpecHeapTracked == Init /\ [][NextHeapTracked]_vars

\* The scheduler after boot: tasks are created, yield and exit; the timer ticks.
NextSched ==
    SchedInit \/ SchedCreateTask \/ SchedTick \/ SchedYield \/ SchedTerminate

SpecSched == Init /\ [][NextSched]_vars

\* The scheduler with the timer interrupt arriving at any statement of a call.
NextSchedIrq ==
    SchedInit \/ SchedCreateTask \/ IrqTick \/ YieldCall \/ TerminateCall
        \/ SchedStep

SpecSchedIrq == Init /\ [][NextSchedIrq]_vars

\* Boot, four compute-bound tasks created on CPU 0, then 200 timer ticks.
NextCompute == SchedInit \/ ComputeCreateTask \/ ComputeTick

SpecCompute == Init /\ [][NextCompute]_vars

\* Tasks are created and killed while the timer ticks.
NextKill == SchedInit \/ SchedCreateTask \/ SchedTick \/ SchedKill

SpecKill == Init /\ [][NextKill]_vars

\* Tasks are created and exit while the timer ticks. The timer is programmed
\* once and interrupts are on: a tick that can happen does happen.
NextExit == SchedInit \/ SchedCreateTask \/ SchedTerminate \/ SchedTick

SpecExit == Init /\ [][NextExit]_vars /\ WF_vars(SchedTick)

\* Boot, one normal-priority task, and the two tasks yielding in turn.
NextInteractive ==
    SchedInit \/ InteractiveCreateTask \/ InteractiveYield \/ InteractiveTick

SpecInteractive == Init /\ [][NextInteractive]_vars

\* ------------------------------------------------------------ PFA: claims

SetBitCount == Cardinality({i \in Frames : pmm.memory_bitmap[i]})

\* C1: exclusive frame ownership.  When every free releases a range that an
\* earlier alloc returned and that is not yet freed, the ranges returned by
\* alloc and not yet freed are pairwise disjoint: no range is held twice and
\* no two held ranges share a frame.
C1_ExclusiveFrameOwnership ==
    /\ \A r \in LiveRanges : CopiesIn(r, live) = 1
    /\ \A r1, r2 \in LiveRanges :
           r1 # r2 => RangeFrames(r1) \cap RangeFrames(r2) = {}

\* C2: a double free is a no-op.  Freeing again a range that is no longer
\* allocated to the caller leaves the bitmap, the caches and the free-frame
\* count unchanged.
C2_DoubleFreeIsNoOp == [][PmmFreeAgain => UNCHANGED pmm]_vars

\* C3: bitmap consistency.  Between operations of the allocator the number of
\* set bits equals total_frames - free_frame_count - frames in the caches.
C3_BitmapConsistency ==
    SetBitCount = total_memory_pages - pmm_get_free_pages(pmm)
                    - (Len(pmm.pf_cache_hot) + pf_cache_cold_count)

\* ------------------------------------------------------------ VMM: claims

VmaOverlap(a, b) == a.start < b.end /\ b.start < a.end

\* Some VMA of the context contains the address.
Covered(v, x) ==
    \E i \in 1 .. Len(v.vma_list) :
        v.vma_list[i].start <= x /\ x < v.vma_list[i].end

PageAddrs(vp) == (vp * PAGE_SIZE) .. ((vp + 1) * PAGE_SIZE - 1)

\* The protection of the VMA does not permit the access of the fault.
AccessDenied(prot, error_code) ==
    \/ prot = PROT_NONE
    \/ HasBit(error_code, PF_WRITE) /\ ~HasBit(prot, PROT_WRITE)
    \/ HasBit(error_code, PF_INSTR) /\ ~HasBit(prot, PROT_EXEC)

\* C4: VMA disjointness.  After any sequence of mmap without MAP_FIXED, munmap
\* and brk, no two VMAs of the address space overlap.
C4_VmaDisjoint ==
    \A i, j \in 1 .. Len(vm.vma_list) :
        i < j => ~VmaOverlap(vm.vma_list[i], vm.vma_list[j])

\* C5: VMA coverage of present PTEs.  Every virtual page with a present leaf
\* PTE lies inside some VMA of the address space (here: at least one address
\* of the page does).
C5_PresentPteCovered ==
    \A vp \in VPages :
        vm.pt[vp].present => \E x \in PageAddrs(vp) : Covered(vm, x)

\* C6: page-fault idempotence.  A fault that the VMA's protection permits and
\* that is not a copy-on-write fault, on a page of a VMA that already has a
\* frame installed, allocates no further frame and leaves the page's frame
\* installed.
C6_FaultIdempotent ==
    [][\A a \in FaultAddrs, e \in FaultCodes :
          LET found == vmm_find_vma(vm.vma_list, a)
              vp == a \div PAGE_SIZE
          IN  ( /\ found # <<>>
                /\ ~AccessDenied(found[1].prot, e)
                /\ vm.pt[vp].present
                /\ ~IsCowFault(vm, found[1], a, e)
                /\ PageFault(a, e) )
              => /\ vm_held' = vm_held
                 /\ vm'.pt[vp].address = vm.pt[vp].address]_vars

\* C7: permission faults are unresolved.  A fault inside a VMA whose
\* protection does not permit the access allocates no frame and installs no
\* PTE.
C7_PermissionFaultUnresolved ==
    [][\A a \in FaultAddrs, e \in FaultCodes :
          LET found == vmm_find_vma(vm.vma_list, a) IN
          ( /\ found # <<>>
            /\ AccessDenied(found[1].prot, e)
            /\ PageFault(a, e) )
          => /\ vm_held' = vm_held
             /\ vm'.pt = vm.pt]_vars

\* C8: a copy-on-write fault releases the old frame.  After a write fault on a
\* present page of a PRIVATE VMA has installed a fresh frame, the old frame is
\* either still mapped by some page or has been returned to the allocator.
C8_CowReleasesOldFrame ==
    [][\A a \in FaultAddrs :
          LET found == vmm_find_vma(vm.vma_list, a)
              vp == a \div PAGE_SIZE
              old == vm.pt[vp].address
          IN  ( /\ found # <<>>
                /\ HasBit(found[1].prot, PROT_WRITE)
                /\ IsCowFault(vm, found[1], a, PF_WRITE)
                /\ PageFault(a, PF_WRITE)
                /\ vm'.pt[vp].address # old )
              => \/ \E q \in VPages :
                       vm'.pt[q].present /\ vm'.pt[q].address = old
                 \/ old \notin vm_held']_vars

\* C9: munmap splits on partial overlap.  munmap(addr, length) at a
\* page-aligned addr removes only the pages in [addr, addr + length): an
\* address outside the range that a VMA contained is still contained in a
\* VMA, and a present page outside the range stays mapped to the same frame.
C9_MunmapSplits ==
    [][\A addr \in FaultAddrs, len \in MapLens :
          LET end == addr + ALIGN_UP(len, PAGE_SIZE)
              Outside(x) == x < addr \/ x >= end
          IN  addr % PAGE_SIZE = 0 /\ Munmap(addr, len)
              => /\ \A x \in FaultAddrs :
                       Outside(x) /\ Covered(vm, x) => Covered(vm', x)
                 /\ \A vp \in VPages :
                       ( /\ \A x \in PageAddrs(vp) : Outside(x)
                         /\ vm.pt[vp].present )
                       => vm'.pt[vp] = vm.pt[vp]]_vars

\* ----------------------------------------------------------- heap: claims

\* In-use objects of a class: total_objects minus free_objects.
InUse(h, i) ==
    h.size_class_allocators[i].total_objects
        - h.size_class_allocators[i].free_objects

\* C10: heap round trip.  Once every pointer kmalloc has returned has been
\* passed to kfree exactly once, total_allocated, the outstanding count
\* (allocations minus frees) and the in-use count of every size class equal
\* their values after kheap_init.
C10_HeapRoundTrip ==
    heap_live = EmptyBag =>
        /\ heap.total_allocated = kheap_init(HeapZero).total_allocated
        /\ heap.allocation_count - heap.free_count =
               kheap_init(HeapZero).allocation_count
                   - kheap_init(HeapZero).free_count
        /\ \A i \in Classes : InUse(heap, i) = InUse(kheap_init(HeapZero), i)

\* C11: heap double free is a no-op.  kfree of a heap pointer that is already
\* free leaves the free list and the counters of every size class unchanged.
C11_HeapDoubleFreeIsNoOp ==
    [][\A ptr \in HeapAddrs :
          KfreeAgain(ptr) =>
              /\ heap'.size_class_allocators = heap.size_class_allocators
              /\ heap'.next = heap.next]_vars

\* The consequence C11 names: no pointer is held twice at a time.
HeapPointersDistinct ==
    \A ptr \in BagToSet(heap_live) : CopiesIn(ptr, heap_live) = 1

\* C12: heap conservation.  After any sequence of kmalloc_tracked and
\* kfree_tracked calls, the allocation count minus the free count of the heap
\* stats equals the number of entries of the allocation-record list.
C12_HeapConservation ==
    heap.allocation_count - heap.free_count = Len(heap.alloc_records)

\* ------------------------------------------------------ scheduler: claims

Running(s) == s.cpu_runqueues[0].running_task

\* The ready queue of CPU 0 is non-empty and its running task has used up its
\* quantum.
QuantumExpired(s) ==
    /\ s.cpu_runqueues[0].ready_queue_head # NoTask
    /\ Running(s) # NoTask
    /\ Task(s, Running(s)).ticks_remaining = 0

\* C13: scheduler liveness.  Whenever the ready queue of a CPU is non-empty
\* and the running task of that CPU has ticks_remaining == 0, the next timer
\* tick on that CPU makes a different task the running task.
C13_SchedulerLiveness ==
    [][(TimerTick /\ QuantumExpired(sched))
           => Running(sched') # Running(sched)]_vars

\* The task may run on the CPU: bit cpu of its cpu_affinity is set.
Allowed(s, id, cpu) == HasBit(Task(s, id).cpu_affinity, 2 ^ cpu)

RECURSIVE AllAllowed(_, _, _)
AllAllowed(s, q, cpu) ==
    q = <<>> \/ (Allowed(s, Head(q), cpu) /\ AllAllowed(s, Tail(q), cpu))

C15_NoZeroQuantumDispatch ==
    [][(sched.started /\ Running(sched') # Running(sched))
           => Task(sched', Running(sched')).ticks_remaining >= 1]_vars

\* The task is on the ready queue of CPU 0.
Queued(s, id) == \E i \in 1 .. Len(ReadyQueue(s, 0)) : ReadyQueue(s, 0)[i] = id

\* The ready queue of CPU 0 holds a task twice: two positions hold one task,
\* or the next pointers run in a circle.
QueuedTwice(s) ==
    \/ \E i, j \in 1 .. Len(ReadyQueue(s, 0)) :
           i < j /\ ReadyQueue(s, 0)[i] = ReadyQueue(s, 0)[j]
    \/ Len(ReadyQueue(s, 0)) > Len(s.tasks)

\* C16: scheduler_schedule is atomic with respect to the timer tick.  When a
\* call of yield_now or exit that a timer tick interrupted has returned, no
\* task is in state RUNNING while being neither the running task nor on the
\* ready queue, and no task is queued twice.
C16_ScheduleAtomic ==
    (sched.started /\ ctx.pc = "idle")
        => /\ \A id \in TaskIds(sched) :
                  Task(sched, id).state = TASK_RUNNING
                      => (id = Running(sched) \/ Queued(sched, id))
           /\ ~QueuedTwice(sched)

\* The difference of the total_tasks counters of the two CPUs.
TotalTasksGap(s) ==
    IF s.cpu_runqueues[0].total_tasks >= s.cpu_runqueues[1].total_tasks
    THEN s.cpu_runqueues[0].total_tasks - s.cpu_runqueues[1].total_tasks
    ELSE s.cpu_runqueues[1].total_tasks - s.cpu_runqueues[0].total_tasks

\* C17: work stealing.  After 4 compute-bound tasks have been created on
\* CPU 0 and 200 ticks have run, load_balances is at least 1 and the
\* total_tasks counters of the two CPUs differ by at most 1.
C17_WorkStealing ==
    (Len(sched.tasks) = COMPUTE_TASKS + 1 /\ sched.global_ticks = COMPUTE_TICKS)
        => /\ sched.load_balances >= 1
           /\ TotalTasksGap(sched) <= 1

\* C18: adaptive quantum.  A normal-priority task that has yielded 11 times
\* (voluntary_yields > 10) is classified interactive: when it is dispatched
\* the next time, its 12th dispatch, it has workload interactive, time_slice
\* 5 and ticks_remaining 5.
C18_AdaptiveQuantum ==
    [][(/\ sched.started
        /\ Running(sched') # Running(sched)
        /\ Task(sched', Running(sched')).priority = PRIORITY_NORMAL
        /\ Task(sched', Running(sched')).voluntary_yields > YIELDS_INTERACTIVE)
           => /\ Task(sched', Running(sched')).workload = WORKLOAD_INTERACTIVE
              /\ Task(sched', Running(sched')).time_slice = QUANTUM_INTERACTIVE
              /\ Task(sched', Running(sched')).ticks_remaining
                     = QUANTUM_INTERACTIVE]_vars

\* The heap holds an allocation record of the pointer: kmalloc_tracked has
\* returned it and kfree_tracked has not taken it back.
HasRecord(h, ptr) == FindRecord(h.alloc_records, ptr, 1) # 0

\* The task has exited and the scheduler has switched to another task.
SwitchedAway(s, id) ==
    /\ id < Len(s.tasks)
    /\ Task(s, id).state = TASK_TERMINATED
    /\ Running(s) # id

\* The task structure and the stack of the task are back in the heap.
Reclaimed(s, h, id) ==
    /\ id < Len(s.tasks)
    /\ ~HasRecord(h, Task(s, id).tcb)
    /\ ~HasRecord(h, Task(s, id).stack_bottom)

C20_KillTakesEffect ==
    [][\A t \in killed :
           Running(sched') # Running(sched)
               => /\ Running(sched') # t
                  /\ Running(sched) = t
                         => /\ Task(sched', t).state = TASK_TERMINATED
                            /\ scheduler_get_task_state(sched', t)
                                   = TASK_TERMINATED]_vars


\* ------------------------------------------------------------ spawn, fork

\* A stack no run of free frames can hold: kmalloc hands a request above its
\* size classes to pmm_alloc_pages, which finds no block for it.
HUGE_STACK == PAGE_SIZE * (TotalFrames + 1)

SpawnStackSizes == {PAGE_SIZE, HUGE_STACK}

\* process_spawn: a task is created with a non-null entry and a stack of at
\* least one page.
SpawnTask(stack_size, priority) ==
    /\ sched.started
    /\ ctx.pc = "idle"
    /\ sched.next_task_id <= MaxTasks
    /\ heap.allocation_count < MaxSchedAllocs
    /\ SchedCommit(scheduler_create_task(SchedState, TRUE, stack_size,
                                         priority))

SchedSpawn ==
    \E stack_size \in SpawnStackSizes, priority \in Priorities :
        SpawnTask(stack_size, priority)

NextSpawn == SchedInit \/ SchedSpawn \/ SchedTick

SpecSpawn == Init /\ [][NextSpawn]_vars

\* The pointers kmalloc_tracked has handed out and kfree_tracked has not
\* taken back.
Outstanding(h) == {h.alloc_records[i].ptr : i \in 1 .. Len(h.alloc_records)}

\* How often task id stands on the ready queue of cpu.
QueueCount(s, cpu, id) ==
    Cardinality({i \in 1 .. Len(ReadyQueue(s, cpu)) :
                     ReadyQueue(s, cpu)[i] = id})

\* The state s2 after a spawn from s1 that returned ret.
SpawnOutcome(s1, h1, s2, h2, ret) ==
    IF ret = -1
    THEN /\ s2 = s1
         /\ Outstanding(h2) = Outstanding(h1)
    ELSE /\ ret = s1.next_task_id
         /\ ret \notin TaskIds(s1)
         /\ ret \in TaskIds(s2)
         /\ Task(s2, ret).state = TASK_READY
         /\ \E cpu \in Cpus :
                /\ QueueCount(s2, cpu, ret) = 1
                /\ s2.cpu_runqueues[cpu].ready_queue_tail = ret
                /\ \A other \in Cpus \ {cpu} : QueueCount(s2, other, ret) = 0

\* C21: spawn is all-or-nothing.  A spawn with a non-null entry and a stack of
\* at least one page either returns an error, leaving every run queue and the
\* next-task-id counter as they were and no task or stack allocation
\* outstanding, or returns a fresh task id whose task is READY and stands
\* exactly once, at the tail, on the ready queue of exactly one CPU.
C21_SpawnAllOrNothing ==
    [][\A stack_size \in SpawnStackSizes, priority \in Priorities :
           SpawnTask(stack_size, priority)
               => SpawnOutcome(sched, heap, sched', heap',
                      scheduler_create_task(SchedState, TRUE, stack_size,
                                            priority).ret)]_vars

\* A spawn has failed for want of a stack after one has succeeded: the task
\* structure of the failed spawn was allocated and freed, the first task is
\* queued.
C21_Witness ==
    /\ sched.started
    /\ sched.next_task_id = 2
    /\ QueueCount(sched, 0, 1) = 1
    /\ heap.free_count = 1
    /\ Cardinality(Outstanding(heap)) = 3


\* sys_fork: the running task forks; the caller receives what
\* scheduler_create_task_fork returns.
SysFork ==
    /\ sched.started
    /\ ctx.pc = "idle"
    /\ heap.allocation_count < MaxSchedAllocs
    /\ heap' = scheduler_create_task_fork(SchedState).st.heap
    /\ pmm' = scheduler_create_task_fork(SchedState).st.pmm
    /\ sched' = scheduler_create_task_fork(SchedState).st.sched
    /\ fork_ret' = scheduler_create_task_fork(SchedState).ret
    /\ UNCHANGED <<contents, heap_live, heap_freed, live, last_freed, double_freed,
                   vmVars, ctx, killed>>

NextFork == SchedInit \/ SchedCreateTask \/ SchedTick \/ SysFork

SpecFork == Init /\ [][NextFork]_vars

\* Memory for a child is available: a task with a stack of one page can be
\* constructed in this state.
ChildMemoryAvailable ==
    scheduler_create_task(SchedState, TRUE, PAGE_SIZE, PRIORITY_NORMAL).ret
        # -1

\* C22: fork_current creates a child.  When memory for the child is
\* available, sys_fork creates exactly one new READY task and returns the id
\* of that task, greater than 0, to the parent.
C22_ForkCreatesChild ==
    [][(SysFork /\ ChildMemoryAvailable)
           => /\ fork_ret' > 0
              /\ TaskIds(sched') = TaskIds(sched) \cup {fork_ret'}
              /\ fork_ret' \notin TaskIds(sched)
              /\ Task(sched', fork_ret').state = TASK_READY]_vars


\* ------------------------------------------------- frame allocator: claims

\* r is the result of pmm_alloc_pages(pmm, n); the caller frees at once the
\* range it was given.
RoundTripStep(r, n) ==
    /\ r.ret # 0
    /\ r.s.used_memory_pages <= MaxUsedPages
    /\ pmm' = pmm_free_pages(r.s, r.ret, n)
    /\ last_freed' = <<0, 0>>
    /\ UNCHANGED <<live, double_freed, vmVars, heapVars, schedVars>>

\* A caller allocates n frames and frees them immediately.
RoundTrip(n) == RoundTripStep(pmm_alloc_pages(pmm, n), n)

PmmRoundTrip == \E n \in 1 .. MaxAllocPages : RoundTrip(n)

NextRoundTrip == PmmAlloc \/ PmmFreeOwned \/ PmmRoundTrip

SpecRoundTrip == Init /\ [][NextRoundTrip]_vars

\* C23: frame alloc/free round trip.  In every reachable state in which
\* alloc_frames(n) succeeds with result p, alloc_frames(n) immediately
\* followed by free_frames(p, n) leaves the frame bitmap bit for bit what it
\* was before the alloc.
C23_AllocFreeRoundTrip ==
    [][\A n \in 1 .. MaxAllocPages :
           RoundTrip(n) => pmm'.memory_bitmap = pmm.memory_bitmap]_vars


\* a is the result of the pmm_alloc_pages(1) that follows the free of r.
ReuseStep(a, r) ==
    /\ a.s.used_memory_pages <= MaxUsedPages
    /\ pmm' = a.s
    /\ live' = IF a.ret = 0 THEN live (-) SetToBag({r})
               ELSE (live (-) SetToBag({r})) (+) SetToBag({<<a.ret, 1>>})
    /\ last_freed' = r
    /\ UNCHANGED <<double_freed, vmVars, heapVars, schedVars>>

\* A caller frees a single frame it holds; the next call is pmm_alloc_pages(1).
FreeThenAlloc(r) ==
    /\ r[2] = 1
    /\ ReuseStep(pmm_alloc_pages(pmm_free_pages(pmm, r[1], 1), 1), r)

PmmFreeThenAlloc == \E r \in LiveRanges : FreeThenAlloc(r)

NextReuse == PmmAlloc \/ PmmFreeOwned \/ PmmFreeThenAlloc

SpecReuse == Init /\ [][NextReuse]_vars

\* The free-frame count is above the caching watermark and the hot cache has
\* room.
CachingFree(s) ==
    /\ pmm_get_free_pages(s) > LOW_MEMORY_THRESHOLD * 2
    /\ Len(s.pf_cache_hot) < PAGE_CACHE_SIZE

\* C24: hot-cache LIFO reuse.  When the free-frame count is above the caching
\* watermark and the hot cache is not full, a single frame released by
\* free_frames(p, 1) is the frame the next alloc_frames(1) returns.
C24_HotCacheLifo ==
    [][\A r \in LiveRanges :
           (FreeThenAlloc(r) /\ CachingFree(pmm))
               => pmm_alloc_pages(pmm_free_pages(pmm, r[1], 1), 1).ret
                      = r[1]]_vars


\* The bitmap holds a run of n consecutive free frames.
HasFreeRun(bm, n) ==
    \E i \in Frames :
        \A j \in 0 .. (n - 1) : (i + j) \in Frames /\ ~bm[i + j]

\* r is the result of pmm_alloc_pages(s, n).
FailsOnlyOnExhaustion(s, r, n) ==
    /\ (r.ret = 0) <=> ~HasFreeRun(s.memory_bitmap, n)
    /\ r.ret = 0 => r.s = s

\* C25: frame allocation fails only on exhaustion.  For 1 <= n <= 1024,
\* alloc(n) returns null if and only if the bitmap holds no run of n
\* consecutive free frames, and a failed alloc leaves the bitmap and the
\* caches as they were.
C25_AllocFailsOnlyOnExhaustion ==
    \A n \in 1 .. MaxAllocPages :
        FailsOnlyOnExhaustion(pmm, pmm_alloc_pages(pmm, n), n)


\* ------------------------------------------------------------ VMM: claims

\* m is the result of vmm_mmap on the context; the caller unmaps at once the
\* len bytes at the address it was given.
MapUnmapStep(m, len) ==
    /\ m.ret # 0
    /\ VmStep(vmm_munmap([VmState EXCEPT !.vm = m.vm], m.ret, len))

\* A caller maps len bytes and unmaps them immediately.
MapUnmap(len, prot, flags) ==
    /\ vm.page_dir # 0
    /\ MapUnmapStep(vmm_mmap(vm, 0, len, prot, flags), len)

VmmMapUnmap ==
    \E len \in MapLens, k \in MmapKinds : MapUnmap(len, k[1], k[2])

NextMapUnmap ==
    VmmInit \/ VmmMmap \/ VmmMunmap \/ VmmBrk \/ VmmPageFault \/ VmmMapUnmap

SpecMapUnmap == Init /\ [][NextMapUnmap]_vars

\* The page tables of a context: the entries of the four levels.
PageTables(v) == <<v.pml4, v.pdp, v.pd, v.pt>>

\* C26: mmap/munmap round trip.  In every reachable state of an address
\* space, a successful mmap of length L that returns a, followed by
\* munmap(a, L), leaves the VMA list and the page tables as they were before
\* the mmap.
C26_MmapMunmapRoundTrip ==
    [][\A len \in MapLens, k \in MmapKinds :
           MapUnmap(len, k[1], k[2])
               => /\ vm'.vma_list = vm.vma_list
                  /\ PageTables(vm') = PageTables(vm)]_vars


\* The step is the call vmm_mmap(ctx, NULL, len, prot, flags).
MmapCall(len, prot, flags) ==
    /\ vm.page_dir # 0
    /\ VmStep([VmState EXCEPT !.vm = vmm_mmap(vm, 0, len, prot, flags).vm])

\* The step is the call vmm_brk(ctx, addr).
BrkCall(addr) ==
    /\ vm.page_dir # 0
    /\ VmStep(vmm_brk(VmState, addr))

\* The page vp has bytes in [from, to).
PageInRange(vp, from, to) ==
    vp * PAGE_SIZE < to /\ (vp + 1) * PAGE_SIZE > from

\* The step is a page fault on the page vp.
FaultOn(vp) ==
    \E fault_addr \in FaultAddrs, error_code \in FaultCodes :
        /\ fault_addr \div PAGE_SIZE = vp
        /\ PageFault(fault_addr, error_code)

\* The step is a munmap, or a brk that shrinks the heap, whose range covers
\* the page vp.
UnmapCovering(vp) ==
    \/ \E addr \in FaultAddrs, len \in MapLens :
           /\ PageInRange(vp, addr, addr + ALIGN_UP(len, PAGE_SIZE))
           /\ Munmap(addr, len)
    \/ \E addr \in BRK_BASE .. MaxBrk :
           /\ addr < vm.brk
           /\ PageInRange(vp, addr, vm.brk)
           /\ BrkCall(addr)

\* C27: demand paging page life cycle.  An anonymous private mmap allocates
\* no frame and installs no leaf PTE; a page goes from unmapped to present
\* only through a page fault on that page, and from present to unmapped only
\* through a munmap or a brk shrink that covers it.
C27_PageLifeCycle ==
    [][/\ \A len \in MapLens :
              MmapCall(len, PROT_READ + PROT_WRITE, MAP_PRIVATE + MAP_ANONYMOUS)
                  => vm'.pt = vm.pt /\ pmm' = pmm /\ vm_held' = vm_held
       /\ \A vp \in VPages :
              /\ (~vm.pt[vp].present /\ vm'.pt[vp].present) => FaultOn(vp)
              /\ (vm.pt[vp].present /\ ~vm'.pt[vp].present)
                     => UnmapCovering(vp)]_vars


\* m is the result of vmm_mmap; the caller keeps the address it returned.
MmapZeroStep(m) == VmStepRet([VmState EXCEPT !.vm = m.vm], m.ret)

\* A caller asks for a mapping of length 0.
MmapZero(prot, flags) ==
    /\ vm.page_dir # 0
    /\ MmapZeroStep(vmm_mmap(vm, 0, 0, prot, flags))

VmmMmapZero == \E k \in MmapKinds : MmapZero(k[1], k[2])

NextMmapZero ==
    VmmInit \/ VmmMmap \/ VmmMunmap \/ VmmBrk \/ VmmPageFault \/ VmmMmapZero

SpecMmapZero == Init /\ [][NextMmapZero]_vars

\* C28: mmap with length 0 is rejected without effect.  It returns failure
\* and leaves the VMA list, the page tables, brk and mmap_base of the context
\* as they were, and it allocates nothing.
C28_MmapZeroRejected ==
    [][\A k \in MmapKinds :
           MmapZero(k[1], k[2])
               => /\ mmap_ret' = 0
                  /\ vm' = vm
                  /\ pmm' = pmm
                  /\ vm_held' = vm_held
                  /\ heap' = heap]_vars

\* A mapping of length 0 was asked for in a context that holds a mapping and
\* a present page.
C28_Witness ==
    /\ mmap_ret = 0
    /\ vm.vma_list # <<>>
    /\ \E vp \in VPages : vm.pt[vp].present


\* The program break is requested anywhere in the modelled address space.
VmmBrkAny == \E addr \in BRK_BASE .. MaxVaddr : BrkCall(addr)

NextBrk == VmmInit \/ VmmMmap \/ VmmMunmap \/ VmmBrkAny

SpecBrk == Init /\ [][NextBrk]_vars

\* Growing the break of v to addr runs into a mapping that lies above the
\* heap.
BrkCollides(v, addr) ==
    \E i \in 1 .. Len(v.vma_list) :
        /\ v.vma_list[i].start >= v.brk
        /\ v.vma_list[i].start < addr
        /\ v.vma_list[i].end > v.vma_list[i].start

\* C29: brk collision fails without mutation.  A brk whose grown range
\* [ctx.brk, new_brk) would overlap an existing mapping above the heap
\* fails: it creates no VMA and leaves ctx.brk and the VMA list unchanged.
C29_BrkCollisionFails ==
    [][\A addr \in BRK_BASE .. MaxVaddr :
           (BrkCall(addr) /\ addr > vm.brk /\ BrkCollides(vm, addr))
               => /\ vm'.brk = vm.brk
                  /\ vm'.vma_list = vm.vma_list]_vars


\* --------------------------------------------------- heap: slab growth

\* Sizes of the two smallest classes: up to 16 bytes, and in (16, 32].
FreshSizes == {size_classes[0], size_classes[1]}

\* A caller of a heap nobody frees to calls kmalloc(size).
FreshKmalloc(size) ==
    /\ heap.allocation_count < MaxFreshKmallocs
    /\ heap' = kmalloc(HeapState, size).st.heap
    /\ pmm' = kmalloc(HeapState, size).st.pmm
    /\ heap_live' = IF kmalloc(HeapState, size).ret = 0 THEN heap_live
                    ELSE heap_live (+) SetToBag({kmalloc(HeapState, size).ret})
    /\ UNCHANGED <<contents, heap_freed, live, last_freed, double_freed, vmVars,
                   schedVars>>

KmallocFresh == \E size \in FreshSizes : FreshKmalloc(size)

SpecFresh == Init /\ [][KmallocFresh]_vars

\* Every kmalloc so far asked for a size in (16, 32]: the smallest class has
\* served no call.
OnlyClass32 == heap.size_class_allocators[0].alloc_count = 0

RECURSIVE DoubledTo(_, _)
\* total_objects of a class that started with total objects and doubled
\* until it held k.
DoubledTo(total, k) ==
    IF total >= k THEN total ELSE DoubledTo(2 * total, k)

\* The end of the slabs of the 32-byte class when it has grown to serve k
\* calls and no other class has grown.
SlabsEnd(k) ==
    HEAP_START + INITIAL_OBJECTS * size_classes[0]
        + DoubledTo(INITIAL_OBJECTS, k) * size_classes[1]

\* ptr is an object of a slab of the 32-byte class (the slabs of the class
\* follow the initial slab of the smallest class).
InClass32(ptr) ==
    /\ ptr >= HEAP_START + INITIAL_OBJECTS * size_classes[0]
    /\ ptr + size_classes[1] <= heap.heap_next_free
    /\ (ptr - HEAP_START - INITIAL_OBJECTS * size_classes[0])
           % size_classes[1] = 0

\* The k calls returned k non-null, pairwise distinct objects of the 32-byte
\* class, and the class has doubled up to k.
SlabGrowth(k) ==
    /\ BagCardinality(heap_live) = k
    /\ HeapPointersDistinct
    /\ \A ptr \in BagToSet(heap_live) : InClass32(ptr)
    /\ heap.size_class_allocators[1].total_objects
           = DoubledTo(INITIAL_OBJECTS, k)

\* C30 as stated: slab growth keeps allocations distinct.  On a fresh heap
\* any number k of sequential kmalloc calls with a size in (16, 32] and no
\* frees return k non-null pairwise distinct pointers of the 32-byte class,
\* and total_objects of the class doubles each time its free list is empty.
C30_SlabGrowthAnyK == OnlyClass32 => SlabGrowth(heap.allocation_count)

\* C30, amended: the same for every k whose slabs fit in the heap region.
C30_SlabGrowthWhileRoom ==
    (OnlyClass32 /\ SlabsEnd(heap.allocation_count) <= HEAP_END)
        => SlabGrowth(heap.allocation_count)

\* The class has doubled three times and every call was served.
C30_Witness ==
    /\ OnlyClass32
    /\ heap.allocation_count = 16
    /\ BagCardinality(heap_live) = 16
    /\ heap.size_class_allocators[1].total_objects = 16


\* ------------------------------------------------------------ heap: realloc

\* memset(p, 0, n) and memcpy(dst, src, n) on the bytes of the heap.
Memset(bytes, p, n) ==
    [a \in HeapAddrs |-> IF a >= p /\ a < p + n THEN 0 ELSE bytes[a]]

Memcpy(bytes, dst, src, n) ==
    [a \in HeapAddrs |->
        IF a >= dst /\ a < dst + n /\ (src + (a - dst)) \in HeapAddrs
        THEN bytes[src + (a - dst)] ELSE bytes[a]]

\* kmalloc, line 311: the object handed out is zeroed over its class size.
KmallocZero(bytes, ptr, size) ==
    IF ptr = 0 \/ get_size_class_index(size) < 0 THEN bytes
    ELSE Memset(bytes, ptr, size_classes[get_size_class_index(size)])

\* krealloc, lines 328-337: the size the tracking records hold for ptr.
OldSize(records, i) == IF i = 0 THEN 0 ELSE records[i].size

\* krealloc, lines 339-348: r is the result of kmalloc(size), old_size the
\* size found in the records.
ReallocCopy(r, bytes, ptr, size, old_size) ==
    [ st |-> [r.st EXCEPT !.heap = kfree(@, ptr)],
      bytes |-> Memcpy(KmallocZero(bytes, r.ret, size), r.ret, ptr,
                       IF old_size < size THEN old_size ELSE size),
      ret |-> r.ret ]

ReallocNew(r, bytes, ptr, size) ==
    IF r.ret = 0 THEN [st |-> r.st, bytes |-> bytes, ret |-> 0]
    ELSE ReallocCopy(r, bytes, ptr, size,
             OldSize(r.st.heap.alloc_records,
                     FindRecord(r.st.heap.alloc_records, ptr, 1)))

ReallocFresh(r, bytes, size) ==
    [st |-> r.st, bytes |-> KmallocZero(bytes, r.ret, size), ret |-> r.ret]

\* st is [heap, pmm].
krealloc(st, bytes, ptr, size) ==
    IF ptr = 0 THEN ReallocFresh(kmalloc(st, size), bytes, size)
    ELSE IF size = 0
         THEN [st |-> [st EXCEPT !.heap = kfree(@, ptr)], bytes |-> bytes,
               ret |-> 0]
         ELSE ReallocNew(kmalloc(st, size), bytes, ptr, size)

\* r is the result of krealloc.
ReallocTrack(r, size) ==
    IF r.ret = 0 THEN r
    ELSE [r EXCEPT !.st.heap = track_allocation(@, r.ret, size)]

krealloc_tracked(st, bytes, ptr, size) ==
    ReallocTrack(krealloc([st EXCEPT !.heap = untrack_allocation(@, ptr)],
                          bytes, ptr, size),
                 size)

ReallocSizes == {size_classes[0], size_classes[1]}

\* The caller writes size bytes, each different from zero, into its block.
Fill(bytes, ptr, size) ==
    [a \in HeapAddrs |->
        IF a >= ptr /\ a < ptr + size THEN a - ptr + 1 ELSE bytes[a]]

\* r is the result of kmalloc or kmalloc_tracked; the caller fills the block.
ReallocOwn(r, size) ==
    /\ r.ret # 0
    /\ heap' = r.st.heap
    /\ pmm' = r.st.pmm
    /\ contents' = [contents EXCEPT
           !.bytes = Fill(KmallocZero(@, r.ret, size), r.ret, size),
           !.owned = @ \cup {<<r.ret, size>>}]
    /\ UNCHANGED <<heap_live, heap_freed, live, last_freed, double_freed,
                   vmVars, schedVars>>

ReallocAlloc ==
    /\ heap.allocation_count < MaxReallocAllocs
    /\ \E size \in ReallocSizes :
           \/ ReallocOwn(kmalloc(HeapState, size), size)
           \/ ReallocOwn(kmalloc_tracked(HeapState, size), size)

\* r is the result of krealloc or krealloc_tracked on the block b.
ReallocStep(r, b, size) ==
    /\ heap' = r.st.heap
    /\ pmm' = r.st.pmm
    /\ contents' = [ bytes |-> r.bytes,
                     owned |-> IF r.ret = 0 THEN contents.owned
                               ELSE (contents.owned \ {b})
                                        \cup {<<r.ret, size>>},
                     last |-> <<b[1], b[2], r.ret, size>> ]
    /\ UNCHANGED <<heap_live, heap_freed, live, last_freed, double_freed,
                   vmVars, schedVars>>

\* A caller resizes the block b it holds to size bytes, size > 0.
Realloc(b, size, tracked) ==
    /\ heap.allocation_count < MaxReallocAllocs
    /\ ReallocStep(IF tracked
                   THEN krealloc_tracked(HeapState, contents.bytes, b[1], size)
                   ELSE krealloc(HeapState, contents.bytes, b[1], size),
                   b, size)

KreallocOwned ==
    \E b \in contents.owned, size \in ReallocSizes, tracked \in BOOLEAN :
        Realloc(b, size, tracked)

NextRealloc == ReallocAlloc \/ KreallocOwned

SpecRealloc == Init /\ [][NextRealloc]_vars

\* The first n bytes at dst in b2 are the first n bytes at src in b1.
SameBytes(b1, src, b2, dst, n) ==
    \A i \in 0 .. (n - 1) : b2[dst + i] = b1[src + i]

\* C31: realloc preserves contents.  realloc(ptr, size) of a live block with
\* size > 0, through krealloc or krealloc_tracked, returns a block whose first
\* min(old size, new size) bytes equal the contents of the old block, and the
\* old block is freed.
C31_ReallocPreservesContents ==
    [][\A b \in contents.owned, size \in ReallocSizes, tracked \in BOOLEAN :
           (Realloc(b, size, tracked) /\ contents'.last[3] # 0)
               => /\ SameBytes(contents.bytes, b[1], contents'.bytes,
                               contents'.last[3],
                               IF b[2] < size THEN b[2] ELSE size)
                  /\ heap'.free_count = heap.free_count + 1]_vars


\* ---------------------------------------------------- scheduler: balance

\* The head of the ready queue of CPU 0 is put on the ready queue of cpu, on
\* a machine whose CPUs are all counted in num_cpus.
PlaceOn(d, cpu) ==
    IF d.task = NoTask THEN d.s
    ELSE scheduler_enqueue([d.s EXCEPT !.num_cpus = MAX_CPUS], cpu, d.task)

\* A queued task is given to the second CPU: the run queues balance_load is
\* called with.
PlaceOnSecondCpu ==
    /\ sched.started
    /\ ctx.pc = "idle"
    /\ sched.cpu_runqueues[0].ready_queue_head # NoTask
    /\ sched' = PlaceOn(scheduler_dequeue(sched, 0), 1)
    /\ UNCHANGED <<pfaVars, vmVars, heapVars, ctx, killed, fork_ret>>

\* balance_load(cpu) is called and returns.
BalanceCall(cpu) ==
    /\ sched.started
    /\ ctx.pc = "idle"
    /\ sched.num_cpus = MAX_CPUS
    /\ sched' = balance_load(sched, cpu)
    /\ ctx' = [ctx EXCEPT !.pc = "balanced"]
    /\ UNCHANGED <<pfaVars, vmVars, heapVars, killed, fork_ret>>

SchedBalance == \E cpu \in Cpus : BalanceCall(cpu)

NextBalance ==
    SchedInit \/ ComputeCreateTask \/ SchedTick \/ PlaceOnSecondCpu
        \/ SchedBalance

SpecBalance == Init /\ [][NextBalance]_vars

\* The load of the CPU other than cpu that has the highest load.
HighestLoad(s, cpu) ==
    Max({s.cpu_runqueues[c].load : c \in Cpus \ {cpu}})

\* s2 is s1 with the head of the ready queue of CPU from moved to the tail of
\* the ready queue of CPU to.
Stolen(s1, s2, from, to) ==
    /\ ReadyQueue(s1, from) # <<>>
    /\ ReadyQueue(s2, from) = Tail(ReadyQueue(s1, from))
    /\ ReadyQueue(s2, to)
           = Append(ReadyQueue(s1, to), Head(ReadyQueue(s1, from)))
    /\ Task(s2, Head(ReadyQueue(s1, from))).last_cpu = to

BitmapFrames == KERNEL_END_PAGE .. (KERNEL_END_PAGE + BITMAP_PAGES - 1)

\* The frames in use when pmm_init returns.
InUseAtInit == KernelPages \cup BitmapFrames \cup MbPages

\* C33: init reserves what is in use.  After PFA init every frame occupied by
\* the kernel image, by the frame bitmap itself and by the boot-info blob has
\* its bitmap bit set, so no later alloc returns any of those frames.
C33_InitReservesInUse ==
    /\ live = EmptyBag => \A f \in InUseAtInit : pmm.memory_bitmap[f]
    /\ \A r \in LiveRanges : RangeFrames(r) \cap InUseAtInit = {}


\* ------------------------------------------------------- mmap placement

\* [a, a + length) intersects a VMA of the context v.
HitsVma(v, a, length) ==
    \E i \in 1 .. Len(v.vma_list) :
        v.vma_list[i].start < a + length /\ v.vma_list[i].end > a

\* a is the lowest page-aligned address at or above mmap_base at which
\* length bytes intersect no VMA of v.
LowestFree(v, a, length) ==
    /\ a >= v.mmap_base
    /\ ~HitsVma(v, a, length)
    /\ \A b \in v.mmap_base .. (a - 1) :
           b % PAGE_SIZE = 0 => HitsVma(v, b, length)

\* C34: mmap placement.  A non-FIXED mmap of page-rounded length L returns
\* the lowest address a >= ctx.mmap_base such that [a, a+L) intersects no
\* existing VMA, whatever VMAs (heap VMAs below mmap_base included) exist.
C34_MmapPlacement ==
    [][\A len \in MapLens, k \in MmapKinds :
           MmapCall(len, k[1], k[2])
               => LowestFree(vm, vmm_mmap(vm, 0, len, k[1], k[2]).ret,
                             ALIGN_UP(len, PAGE_SIZE))]_vars


\* ------------------------------------------------ heap: large allocations

\* The requests that kmalloc passes to the frame allocator.
LargeSizes == (LARGE_ALLOC_THRESHOLD + 1) .. MaxKmallocSize

\* r is the result of kmalloc; the pointer it returned is freed at once.
KmallocKfreeStep(r) ==
    /\ r.ret # 0
    /\ r.st.heap.allocation_count <= MaxKmallocs
    /\ heap.free_count < MaxKfrees
    /\ heap' = kfree(r.st.heap, r.ret)
    /\ pmm' = r.st.pmm
    /\ UNCHANGED <<heap_live, heap_freed, contents, live, last_freed,
                   double_freed, vmVars, schedVars>>

\* A caller runs p = kmalloc(size); kfree(p).
KmallocKfree(size) == KmallocKfreeStep(kmalloc(HeapState, size))

KmallocKfreeLarge == \E size \in LargeSizes : KmallocKfree(size)

NextLarge == Kmalloc \/ KfreeOwned \/ KmallocKfreeLarge

SpecLarge == Init /\ [][NextLarge]_vars

\* C35: large free returns frames.  kfree of a pointer obtained from
\* kmalloc(size) with size above the large-allocation threshold returns all
\* ceil(size / PAGE_SIZE) frames to the frame allocator, so the allocator's
\* free-frame count and total_allocated have after kmalloc; kfree the values
\* they had before.
C35_LargeFreeReturnsFrames ==
    [][\A size \in LargeSizes :
           KmallocKfree(size)
               => /\ pmm_get_free_pages(pmm') = pmm_get_free_pages(pmm)
                  /\ heap'.total_allocated = heap.total_allocated]_vars


\* ------------------------------------------------- scheduler: residency

\* The running code calls scheduler_schedule.
SchedSchedule ==
    /\ sched.started
    /\ ctx.pc = "idle"
    /\ sched.context_switches < MaxSwitches
    /\ sched' = scheduler_schedule(sched)
    /\ UNCHANGED <<pfaVars, vmVars, heapVars, ctx, killed, fork_ret>>

\* A queued task is given to the second CPU, at most MaxPlaced times.
PlaceBounded ==
    /\ sched.cpu_runqueues[1].total_tasks < MaxPlaced
    /\ PlaceOnSecondCpu

\* balance_load(cpu) is called between two other operations.
SchedBalanceAny ==
    /\ sched.started
    /\ ctx.pc = "idle"
    /\ sched.num_cpus = MAX_CPUS
    /\ \E cpu \in Cpus : sched' = balance_load(sched, cpu)
    /\ UNCHANGED <<pfaVars, vmVars, heapVars, ctx, killed, fork_ret>>

\* A caller creates a task, up to MaxResidents tasks.
ResidentCreateTask == sched.next_task_id <= MaxResidents /\ ComputeCreateTask

NextResidency ==
    SchedInit \/ ResidentCreateTask \/ IrqTick \/ SchedSchedule \/ SchedYield
        \/ SchedTerminate \/ PlaceBounded \/ SchedBalanceAny

SpecResidency == Init /\ [][NextResidency]_vars

\* The CPUs task id is the running task of.
RunningOn(s, id) == {c \in Cpus : s.cpu_runqueues[c].running_task = id}

\* How often task id stands on a ready queue, all CPUs taken together.
RECURSIVE QueuedTimes(_, _, _)
QueuedTimes(s, id, c) ==
    IF c >= MAX_CPUS THEN 0
    ELSE QueueCount(s, c, id) + QueuedTimes(s, id, c + 1)

\* The ready queue of cpu ends after at most one link per task, and the tail
\* pointer is its last node (NULL when the queue is empty).
WellFormedQueue(s, cpu) ==
    /\ Len(ReadyQueue(s, cpu)) <= Len(s.tasks)
    /\ s.cpu_runqueues[cpu].ready_queue_tail
           = IF ReadyQueue(s, cpu) = <<>> THEN NoTask
             ELSE ReadyQueue(s, cpu)[Len(ReadyQueue(s, cpu))]

\* C36: single residency of tasks.  After any sequence of spawn, tick,
\* schedule, yield_now, terminate_current and balance, every task is the
\* running task of at most one CPU or stands exactly once on exactly one
\* ready queue, never both; every ready queue is a finite acyclic list whose
\* tail pointer is its last node.
C36_SingleResidency ==
    /\ \A id \in TaskIds(sched) :
           Cardinality(RunningOn(sched, id)) + QueuedTimes(sched, id, 0) <= 1
    /\ \A cpu \in Cpus : WellFormedQueue(sched, cpu)

\* A task stolen by balance_load stands on the ready queue of CPU 0 beside
\* other tasks, a task is left on the ready queue of CPU 1, and a task that
\* has exited is on no queue.
C36_Witness ==
    /\ sched.load_balances >= 1
    /\ Len(ReadyQueue(sched, 0)) >= 1
    /\ Len(ReadyQueue(sched, 1)) >= 1
    /\ Running(sched) # NoTask
    /\ \E id \in TaskIds(sched) : Task(sched, id).state = TASK_TERMINATED


\* ------------------------------------------------- heap: owner of memory

\* Frames of a machine whose bitmap reaches past the end of the heap region.
WideFrames == (HEAP_END \div PAGE_SIZE) + 2

InitWide == InitWith(ParsedMemoryMap(WideFrames))

\* A caller asks for size bytes on that machine.
OwnerKmalloc ==
    \E size \in 1 .. MaxKmallocSize :
        KmallocUpTo(kmalloc(HeapState, size), MaxOwnerKmallocs)

NextOwner == OwnerKmalloc \/ KfreeOwned

SpecOwner == InitWide /\ [][NextOwner]_vars

\* No two allocations that are live have the same pointer.
OneOwnerEach == \A ptr \in BagToSet(heap_live) : CopiesIn(ptr, heap_live) = 1

\* The frames the frame allocator has marked as handed out that lie in the
\* heap region.
HeapFramesHandedOut ==
    {f \in DOMAIN pmm.memory_bitmap :
         pmm.memory_bitmap[f] /\ f * PAGE_SIZE \in HeapAddrs}

\* C37: unique owner of heap memory.  Every live kmalloc pointer belongs to
\* exactly one slab object of a size class or to exactly one large
\* allocation's frame range; a frame range handed out by the frame allocator
\* never lies inside [HEAP_START, HEAP_END).
C37_UniqueOwner == OneOwnerEach /\ HeapFramesHandedOut = {}


\* ------------------------------------------------- heap: tracked pairs

\* r is the result of kmalloc_tracked; the pointer it returned is freed at
\* once with kfree_tracked.
TrackedPairStep(r) ==
    /\ r.ret # 0
    /\ r.st.heap.allocation_count <= MaxKmallocs
    /\ heap.free_count < MaxKfrees
    /\ heap' = kfree_tracked(r.st.heap, r.ret)
    /\ pmm' = r.st.pmm
    /\ UNCHANGED <<heap_live, heap_freed, contents, live, last_freed,
                   double_freed, vmVars, schedVars>>

\* A caller runs p = kmalloc_tracked(size); kfree_tracked(p).
TrackedPair(size) == TrackedPairStep(kmalloc_tracked(HeapState, size))

KmallocKfreeTracked == \E size \in 1 .. MaxKmallocSize : TrackedPair(size)

NextTrackedPair == KmallocTracked \/ KfreeTrackedOwned \/ KmallocKfreeTracked

SpecTrackedPair == Init /\ [][NextTrackedPair]_vars

\* C38: tracked pairs do not use up the heap.  kmalloc_tracked followed by
\* kfree_tracked of the pointer it returned leaves heap_next_free at the
\* value it had before the pair, so repeating the pair never makes a later
\* kmalloc fail with heap exhaustion.
C38_TrackedPairKeepsBump ==
    [][\A size \in 1 .. MaxKmallocSize :
           TrackedPair(size)
               => heap'.heap_next_free = heap.heap_next_free]_vars


\* ------------------------------------------------ scheduler: running task

\* C39: the running task of CPU 0 is non-null and in state RUNNING at every
\* point between scheduler operations, that is after init, spawn, tick,
\* schedule, yield_now and terminate_current have returned; a TERMINATED or
\* READY task is never left as the running task, also when the ready queue
\* is empty.
C39_RunningTaskRuns ==
    sched.started
        => /\ Running(sched) # NoTask
           /\ Task(sched, Running(sched)).state = TASK_RUNNING


\* ------------------------------------------------ scheduler: round robin

\* A caller creates a real-time task.
FairCreateTask ==
    /\ sched.started
    /\ ctx.pc = "idle"
    /\ sched.next_task_id <= MaxTasks
    /\ SchedCommit(scheduler_create_task(SchedState, TRUE, PAGE_SIZE,
                                         PRIORITY_RT_MAX))

\* The timer interrupt keeps arriving, MaxFairTicks times in a run.
FairTick == sched.global_ticks < MaxFairTicks /\ TimerTick

\* The running code calls yield_now, MaxFairYields times in a run.
FairYield ==
    /\ YieldCount(sched, Len(sched.tasks)) < MaxFairYields
    /\ SchedYield

NextRoundRobin ==
    SchedInit \/ FairCreateTask \/ FairYield \/ SchedTerminate \/ FairTick

SpecRoundRobin == Init /\ [][NextRoundRobin]_vars /\ WF_vars(FairTick)

\* The ticks task id uses of its time slice before scheduler_tick takes the
\* CPU from it: ticks_remaining, and one tick when that is 0.
SliceLeft(s, id) ==
    IF Task(s, id).ticks_remaining = 0 THEN 1 ELSE Task(s, id).ticks_remaining

RECURSIVE SliceSum(_, _, _)
SliceSum(s, q, id) ==
    IF q = <<>> \/ Head(q) = id THEN 0
    ELSE SliceLeft(s, Head(q)) + SliceSum(s, Tail(q), id)

\* The ticks until the turn of the queued task id: the rest of the slice of
\* the running task and the slices of the tasks queued before id.
TurnTicks(s, id) ==
    SliceLeft(s, Running(s)) + SliceSum(s, ReadyQueue(s, 0), id)

\* Task id stands READY on the ready queue of CPU 0 and the timer ticks that
\* are still to come in the run reach its turn.
WaitsForTurn(id) ==
    /\ sched.started
    /\ id \in TaskIds(sched)
    /\ Queued(sched, id)
    /\ Task(sched, id).state = TASK_READY
    /\ sched.global_ticks + TurnTicks(sched, id) <= MaxFairTicks

====
